---- MODULE Spec2Model ----
(***************************************************************************)
(* A model of the flight-school ingestion-and-derivation engine:           *)
(*   - the FlightLogger API client (flightlogger.py): send_request with    *)
(*     its retry and its cursor file, get_users_by_role, get_aircrafts,    *)
(*     get_classes;                                                        *)
(*   - User.set_availabilities (classes/user.py);                          *)
(*   - the run of School.initialize (classes/school.py) with               *)
(*     School.get_bookings, User.set_bookings and Booking.__init__.        *)
(* Every function is modelled on its own text: a constructor call builds a *)
(* record of the arguments the caller passes.                              *)
(***************************************************************************)
EXTENDS Integers, Sequences, FiniteSets, TLC

(***************************************************************************)
(* Bounds of the model.                                                    *)
(***************************************************************************)
MaxPages == 3
MaxPageSize == 2
MaxFailures == 5
MaxDay == 1
MaxSlots == 2
MaxBookings == 2
MaxFlights == 1
MaxUserBookings == 2
MaxNameParts == 2

VARIABLES
    \* ---- flightlogger.py ----
    call,           \* the fetch function being executed ("idle" when none)
    fl_pc,          \* "idle" | "await" (execute_async in flight) | "done" | "raised"
    server_pages,   \* the remote collection: the number of nodes of each page
    query,          \* the query document of the pending request
    params,         \* the variable values of the pending request (a dict)
    fails,          \* depth of the send_request recursion (failures so far)
    attempts,       \* the requests the pending send_request has sent, with outcomes
    response_json,  \* the response the last completed send_request returned
    page,           \* get_users_by_role's page counter
    users,          \* get_users_by_role's accumulated list
    result,         \* what the fetch function returned
    error,          \* the exception that reached the caller ("" when none)
    cursors,        \* the content of cursors.json: query object -> cursor list
    \* ---- classes/user.py, one User ----
    SCHEDULING_DATE,  \* fl.SCHEDULING_DATE
    data,             \* User.data: the raw node of the user
    availabilities,   \* User.availabilities
    is_available,     \* User.is_available
    user_pc,          \* "none" | "created" | "availabilities_set"
    \* ---- classes/school.py, one run of School.initialize ----
    run_pc,         \* the next step of School.initialize, "done" or "raised"
    aircrafts,      \* School.aircrafts
    role_groups,    \* School.role_groups = [instructors, students]
    classes,        \* School.classes
    flyers,         \* School.flyers: references <<group, index>> into role_groups
    raw_classes,    \* what fl.get_classes returned
    raw_trainings,  \* what fl.get_trainings returned
    raw_bookings,   \* what fl.get_bookings returned
    next_user,      \* position in instructors + students of the next user.initialize
    warnings,       \* School.warnings
    run_error,      \* the exception that ended the run ("" when none)
    fetched,        \* the fetches School.initialize has awaited, in order
    \* ---- main.py ----
    scheduling_date,  \* the global scheduling_date the hotkeys move
    start,            \* the global start the enter hotkey sets
    main_pc,          \* "waiting" | "scheduler" | "initialize" | "exited"
    debugging,        \* the global debugging: the program was started with -d
    \* ---- classes/user.py, one User through User.initialize ----
    u_type,           \* User.type
    u_data,           \* User.data with the attached bookings
    u_aircrafts,      \* the aircrafts_list passed to initialize
    u_flights,        \* User.flights
    u_bookings,       \* User.bookings
    days_since_last_flight,
    airborne_time_mtd_minutes,
    airborne_time_on_scheduling_date,
    tiredness,        \* <<>> while the attribute does not exist
    has_booking_on_scheduling_date,
    figures_pc,       \* "none" | "created" | "initialized"
    \* ---- classes/training.py, one Training ----
    training_args,    \* the arguments of Training(...)
    training,         \* the Training object
    training_pc       \* "none" | "built"

fetchVars == <<call, fl_pc, server_pages, query, params, fails, attempts,
               response_json, page, users, result, error, cursors>>

userVars == <<SCHEDULING_DATE, data, availabilities, is_available, user_pc>>

runVars == <<run_pc, aircrafts, role_groups, classes, flyers, raw_classes,
             raw_trainings, raw_bookings,
             next_user, warnings, run_error, fetched>>

mainVars == <<scheduling_date, start, main_pc, debugging>>

figureVars == <<u_type, u_data, u_aircrafts, u_flights, u_bookings, days_since_last_flight,
                airborne_time_mtd_minutes, airborne_time_on_scheduling_date,
                tiredness, has_booking_on_scheduling_date, figures_pc>>

trainingVars == <<training_args, training, training_pc>>

vars == <<fetchVars, userVars, runVars, mainVars, figureVars, trainingVars>>

(***************************************************************************)
(* The remote API.  A collection is a sequence of pages; page i holds      *)
(* server_pages[i] nodes, numbered in arrival order, its endCursor is i    *)
(* and only the last page reports hasNextPage = false.                     *)
(***************************************************************************)
\* The server fills every page but the last to the page size k.
PageSizes ==
    {[i \in 1..n |-> IF i < n THEN k ELSE last] :
        n \in 1..MaxPages, k \in 1..MaxPageSize, last \in 0..MaxPageSize}

RECURSIVE NodesBefore(_, _)
NodesBefore(sizes, i) ==
    IF i <= 1 THEN 0 ELSE sizes[i - 1] + NodesBefore(sizes, i - 1)

PageNodes(sizes, i) == [j \in 1..sizes[i] |-> NodesBefore(sizes, i) + j]

AllNodes(sizes) == [j \in 1..NodesBefore(sizes, Len(sizes) + 1) |-> j]

\* The page the server returns for a request: the first page without an
\* `after` variable, else the page that follows the cursor.
ServerPage(sizes, p) ==
    LET i == IF "after" \in DOMAIN p THEN p.after + 1 ELSE 1 IN
    IF i \in DOMAIN sizes
    THEN [nodes |-> PageNodes(sizes, i),
          pageInfo |-> [endCursor |-> i, hasNextPage |-> i < Len(sizes)]]
    ELSE [nodes |-> <<>>,
          pageInfo |-> [endCursor |-> i, hasNextPage |-> FALSE]]

Roles == {"INSTRUCTOR", "STUDENT"}
TransportErrors == {"TransportError", "TransportServerError", "ClientResponseError"}
OtherErrors == {"TimeoutError"}
NoResponse == [nodes |-> <<>>]

\* The query object of a call: list(response_json.keys())[0].
QueryObject(c) == IF c = "get_aircrafts" THEN "aircraft"
                  ELSE IF c = "get_classes" THEN "classes" ELSE "users"

(***************************************************************************)
(* send_request                                                            *)
(***************************************************************************)
\* except (TransportError, TransportServerError, ClientResponseError):
IsRetryableBareExcept(e) == TRUE

IsRetryable(e) ==
    e \in {"TransportError", "TransportServerError", "ClientResponseError"}

\* The retry: response_json = await send_request(query, params)
RetryRequestDropsAfter(q, p) ==
    [query |-> q, params |-> [k \in DOMAIN p \ {"after"} |-> p[k]]]

RetryRequest(q, p) == [query |-> q, params |-> p]

\* Lines 76-105 of send_request on one response: the endCursor joins the
\* cursor list of the query object unless it is in it already.
InList(x, s) == \E i \in 1..Len(s) : s[i] = x

RecordCursorAlways(cur, qo, resp) ==
    IF "pageInfo" \in DOMAIN resp
    THEN LET cursors_list == IF qo \in DOMAIN cur THEN cur[qo] ELSE <<>> IN
         [k \in DOMAIN cur \cup {qo} |->
             IF k = qo THEN Append(cursors_list, resp.pageInfo.endCursor)
             ELSE cur[k]]
    ELSE cur

RecordCursor(cur, qo, resp) ==
    IF "pageInfo" \in DOMAIN resp
    THEN LET cursors_list == IF qo \in DOMAIN cur THEN cur[qo] ELSE <<>> IN
         IF ~InList(resp.pageInfo.endCursor, cursors_list)
         THEN [k \in DOMAIN cur \cup {qo} |->
                  IF k = qo THEN Append(cursors_list, resp.pageInfo.endCursor)
                  ELSE cur[k]]
         ELSE cur
    ELSE cur

\* Every frame of the recursion runs lines 76-105 on the response as it
\* returns: depth + 1 times in all.
RECURSIVE Unwind(_, _, _, _)
Unwind(cur, qo, resp, depth) ==
    IF depth = 0 THEN RecordCursor(cur, qo, resp)
    ELSE Unwind(RecordCursor(cur, qo, resp), qo, resp, depth - 1)

(***************************************************************************)
(* get_users_by_role, get_aircrafts, get_classes                           *)
(***************************************************************************)
num_users == 12

\* create_users: one User per node, in the order of the nodes.
create_users(nodes, role) == [i \in 1..Len(nodes) |-> [id |-> nodes[i], type |-> role]]

\* users += create_users(response_json, role=role)
MergeUsersReplace(us, new) == new

MergeUsers(us, new) == us \o new

\* params["after"] = response_json["users"]["pageInfo"]["endCursor"]
NextParamsKeepFirstCursor(p, resp) ==
    IF "after" \in DOMAIN p THEN p
    ELSE [k \in DOMAIN p \cup {"after"} |->
             IF k = "after" THEN resp.pageInfo.endCursor ELSE p[k]]

NextParams(p, resp) ==
    [k \in DOMAIN p \cup {"after"} |->
        IF k = "after" THEN resp.pageInfo.endCursor ELSE p[k]]

\* while response_json["users"]["pageInfo"]["hasNextPage"]:
HasNextPage(resp) == resp.pageInfo.hasNextPage

\* The aircraft nodes arrive in ascending totalAirborneMinutes: node n has n.
totalAirborneMinutes(node) == node

\* list.sort(key=..., reverse=True): a stable sort, descending by key.
RECURSIVE InsertDesc(_, _)
InsertDesc(x, s) ==
    IF s = <<>> THEN <<x>>
    ELSE IF totalAirborneMinutes(Head(s)) >= totalAirborneMinutes(x)
         THEN <<Head(s)>> \o InsertDesc(x, Tail(s))
         ELSE <<x>> \o s

RECURSIVE SortDesc(_)
SortDesc(s) ==
    IF s = <<>> THEN <<>>
    ELSE InsertDesc(s[Len(s)], SortDesc(SubSeq(s, 1, Len(s) - 1)))

\* get_aircrafts after its only send_request: sort the nodes, build Aircraft.
AircraftsOf(resp) ==
    LET sorted == SortDesc(resp.nodes) IN
    [i \in 1..Len(sorted) |->
        [call_sign |-> sorted[i],
         total_airborne_minutes |-> totalAirborneMinutes(sorted[i])]]

\* get_classes after its only send_request: response_json["classes"]["nodes"].
ClassesOf(resp) == resp.nodes

\* One request as the transport saw it, and how it ended.
Sent(q, p, how, tr) == [query |-> q, params |-> p, outcome |-> how, transport |-> tr]

FetchInit ==
    /\ call = "idle"
    /\ fl_pc = "idle"
    /\ server_pages = <<0>>
    /\ query = ""
    /\ params = [num_users |-> num_users]
    /\ fails = 0
    /\ attempts = <<>>
    /\ response_json = NoResponse
    /\ page = 0
    /\ users = <<>>
    /\ result = <<>>
    /\ error = ""
    /\ cursors = [k \in {} |-> <<>>]

\* A caller starts get_users_by_role(role) against some remote collection.
StartGetUsers(role, sizes) ==
    /\ fl_pc = "idle"
    /\ call' = "get_users_by_role"
    /\ server_pages' = sizes
    /\ query' = "query_initial"
    /\ params' = [roles |-> role, num_users |-> num_users]
    /\ page' = 1
    /\ users' = <<>>
    /\ fails' = 0
    /\ attempts' = <<>>
    /\ response_json' = NoResponse
    /\ result' = <<>>
    /\ error' = ""
    /\ fl_pc' = "await"
    /\ UNCHANGED cursors
    /\ UNCHANGED <<userVars, runVars, mainVars, figureVars, trainingVars>>

\* A caller starts get_aircrafts() or get_classes(): send_request(query).
StartGetNodes(c, sizes) ==
    /\ fl_pc = "idle"
    /\ c \in {"get_aircrafts", "get_classes"}
    /\ call' = c
    /\ server_pages' = sizes
    /\ query' = QueryObject(c)
    /\ params' = [k \in {} |-> 0]
    /\ page' = 1
    /\ users' = <<>>
    /\ fails' = 0
    /\ attempts' = <<>>
    /\ response_json' = NoResponse
    /\ result' = <<>>
    /\ error' = ""
    /\ fl_pc' = "await"
    /\ UNCHANGED cursors
    /\ UNCHANGED <<userVars, runVars, mainVars, figureVars, trainingVars>>

\* api_client.execute_async raises e.  A retryable error: sleep, then the
\* same call again, one frame deeper.  Any other error leaves send_request
\* through every frame and through the fetch function.
ExecuteRaises(e) ==
    /\ fl_pc = "await"
    /\ attempts' = Append(attempts, Sent(query, params, "raised", e \in TransportErrors))
    /\ IF IsRetryable(e)
       THEN /\ fails < MaxFailures
            /\ fails' = fails + 1
            /\ query' = RetryRequest(query, params).query
            /\ params' = RetryRequest(query, params).params
            /\ UNCHANGED <<fl_pc, error>>
       ELSE /\ fl_pc' = "raised"
            /\ error' = e
            /\ UNCHANGED <<fails, query, params>>
    /\ UNCHANGED <<call, server_pages, response_json, page, users, result, cursors>>
    /\ UNCHANGED <<userVars, runVars, mainVars, figureVars, trainingVars>>

\* api_client.execute_async returns a page: every frame of send_request
\* records the cursor and returns; the fetch function goes on to its next
\* await or to its return.
ExecuteReturns ==
    /\ fl_pc = "await"
    /\ LET resp == ServerPage(server_pages, params) IN
       /\ cursors' = Unwind(cursors, QueryObject(call), resp, fails)
       /\ response_json' = resp
       /\ IF call = "get_users_by_role"
          THEN LET merged == MergeUsers(users, create_users(resp.nodes, params.roles)) IN
               /\ users' = merged
               /\ IF HasNextPage(resp)
                  THEN /\ page' = page + 1
                       /\ query' = "query_after"
                       /\ params' = NextParams(params, resp)
                       /\ fails' = 0
                       /\ attempts' = <<>>
                       /\ UNCHANGED <<fl_pc, result>>
                  ELSE /\ fl_pc' = "done"
                       /\ result' = merged
                       /\ attempts' = Append(attempts, Sent(query, params, "ok", FALSE))
                       /\ UNCHANGED <<page, query, params, fails>>
          ELSE /\ fl_pc' = "done"
               /\ result' = IF call = "get_aircrafts" THEN AircraftsOf(resp)
                            ELSE ClassesOf(resp)
               /\ attempts' = Append(attempts, Sent(query, params, "ok", FALSE))
               /\ UNCHANGED <<page, query, params, fails, users>>
    /\ UNCHANGED <<call, server_pages, error>>
    /\ UNCHANGED <<userVars, runVars, mainVars, figureVars, trainingVars>>

\* The caller has the result (or the exception); the next fetch may start.
\* cursors.json outlives the call.
FetchReturn ==
    /\ fl_pc \in {"done", "raised"}
    /\ call' = "idle"
    /\ fl_pc' = "idle"
    /\ server_pages' = <<0>>
    /\ query' = ""
    /\ params' = [num_users |-> num_users]
    /\ fails' = 0
    /\ attempts' = <<>>
    /\ response_json' = NoResponse
    /\ page' = 0
    /\ users' = <<>>
    /\ result' = <<>>
    /\ error' = ""
    /\ UNCHANGED cursors
    /\ UNCHANGED <<userVars, runVars, mainVars, figureVars, trainingVars>>

FetchNext ==
    \/ \E role \in Roles, sizes \in PageSizes : StartGetUsers(role, sizes)
    \/ \E c \in {"get_aircrafts", "get_classes"}, sizes \in PageSizes : StartGetNodes(c, sizes)
    \/ \E e \in TransportErrors \cup OtherErrors : ExecuteRaises(e)
    \/ ExecuteReturns
    \/ FetchReturn

(***************************************************************************)
(* classes/user.py: User.set_availabilities                                *)
(***************************************************************************)
\* A datetime has a date and a time of day; an ISO string is read as
\* <<date, time>>.
Days == 0..MaxDay
TimesOfDay == {0, 1}
IsoStrings == Days \X TimesOfDay

\* datetime.fromisoformat
fromisoformat(iso) == [date |-> iso[1], time |-> iso[2]]

\* datetime <= datetime
DatetimeLe(a, b) == a.date < b.date \/ (a.date = b.date /\ a.time <= b.time)

\* datetime.date()
date(dt) == dt.date

\* The raw availability nodes the API can return: startsAt is not after endsAt.
RawSlots ==
    {n \in [startsAt : IsoStrings, endsAt : IsoStrings, unavailable : BOOLEAN] :
        DatetimeLe(fromisoformat(n.startsAt), fromisoformat(n.endsAt))}

RawSlotLists == UNION {[1..n -> RawSlots] : n \in 0..MaxSlots}

\* AvailabilitySlot(starts_at=..., ends_at=..., unavailable=bool(...))
AvailabilitySlot(node) ==
    [starts_at |-> fromisoformat(node.startsAt),
     ends_at |-> fromisoformat(node.endsAt),
     unavailable |-> node.unavailable]

\* Lines 197-204: the slots appended to self.availabilities, in node order.
BuiltAvailabilities(av, nodes) ==
    av \o [i \in 1..Len(nodes) |-> AvailabilitySlot(nodes[i])]

\* Lines 211-226: self.is_available.
IsAvailableExclusiveEnd(av, sd) ==
    IF av # <<>>
    THEN \E i \in 1..Len(av) :
            /\ ~av[i].unavailable
            /\ ~\E j \in 1..Len(av) :
                   /\ DatetimeLe(av[j].starts_at, av[i].starts_at)
                   /\ DatetimeLe(av[i].ends_at, av[j].ends_at)
                   /\ av[j].unavailable
            /\ sd >= date(av[i].starts_at)
            /\ sd < date(av[i].ends_at)
    ELSE FALSE

IsAvailable(av, sd) ==
    IF av # <<>>
    THEN \E i \in 1..Len(av) :
            /\ ~av[i].unavailable
            /\ ~\E j \in 1..Len(av) :
                   /\ DatetimeLe(av[j].starts_at, av[i].starts_at)
                   /\ DatetimeLe(av[i].ends_at, av[j].ends_at)
                   /\ av[j].unavailable
            /\ sd >= date(av[i].starts_at)
            /\ sd <= date(av[i].ends_at)
    ELSE FALSE

UserInit ==
    /\ SCHEDULING_DATE = 0
    /\ data = [availabilities |-> [nodes |-> <<>>]]
    /\ availabilities = <<>>
    /\ is_available = FALSE
    /\ user_pc = "none"

\* School(scheduling_date) sets fl.SCHEDULING_DATE; then a User is created
\* with its raw node as data (User.__init__: no availabilities yet).
CreateUser ==
    /\ user_pc = "none"
    /\ \E sd \in Days, nodes \in RawSlotLists :
          /\ SCHEDULING_DATE' = sd
          /\ data' = [availabilities |-> [nodes |-> nodes]]
    /\ availabilities' = <<>>
    /\ is_available' = FALSE
    /\ user_pc' = "created"
    /\ UNCHANGED <<fetchVars, runVars, mainVars, figureVars, trainingVars>>

\* User.set_availabilities
set_availabilities ==
    /\ user_pc = "created"
    /\ LET built == BuiltAvailabilities(availabilities, data.availabilities.nodes) IN
       /\ availabilities' = built
       /\ is_available' = IsAvailable(built, SCHEDULING_DATE)
    /\ user_pc' = "availabilities_set"
    /\ UNCHANGED <<SCHEDULING_DATE, data>>
    /\ UNCHANGED <<fetchVars, runVars, mainVars, figureVars, trainingVars>>

UserNext ==
    \/ CreateUser
    \/ set_availabilities

(***************************************************************************)
(* classes/school.py: School.initialize and its steps; classes/user.py:    *)
(* User.initialize with set_bookings; classes/booking.py: Booking.         *)
(***************************************************************************)
None == "None"

\* A __typename is read as its words; `"Single" in typename` looks for one.
Contains(tag, typename) == \E i \in 1..Len(typename) : typename[i] = tag

\* `pattern in text` on strings.
IsSubstring(pattern, text) ==
    \E i \in 0..(Len(text) - Len(pattern)) :
        SubSeq(text, i + 1, i + Len(pattern)) = pattern

SingleStudentBooking == <<"Single", "Student", "Booking">>
RentalBooking == <<"Rental", "Booking">>
OperationBooking == <<"Operation", "Booking">>
MultiStudentBooking == <<"Multi", "Student", "Booking">>

\* What fl.get_aircrafts can return: the raw aircraft nodes.
AircraftNode(cs, minutes) == [id |-> cs, callSign |-> cs, totalAirborneMinutes |-> minutes]

AircraftResponses ==
    {<<AircraftNode("EC-A", 100)>>,
     <<AircraftNode("EC-A", 100), AircraftNode("EC-B", 200)>>}

\* What fl.get_users_by_role can return: response["users"]["nodes"].
UserNode(cs) ==
    [id |-> cs, callSign |-> cs,
     flights |-> [nodes |-> <<>>],
     availabilities |-> [nodes |-> <<>>]]

InstructorResponses == {<<UserNode("I1")>>, <<UserNode("I1"), UserNode("I2")>>}
StudentResponses == {<<UserNode("S1")>>}

\* What fl.get_classes and fl.get_trainings return in these runs.
ClassResponses == {<<>>}
TrainingResponses == {<<>>}

\* What fl.get_bookings can return: a booking of one of the API's variants,
\* its parties by call sign, its aircraft by call sign.
BookingShapes ==
    {[typename |-> SingleStudentBooking, instructor |-> i, student |-> st,
      renter |-> None, pic |-> None, aircraft |-> a] :
        i \in {"I1", "I2"}, st \in {"S1", "I2"}, a \in {"EC-A", "EC-B"}}
    \cup
    {[typename |-> RentalBooking, instructor |-> None, student |-> None,
      renter |-> r, pic |-> None, aircraft |-> a] :
        r \in {"S1", "I1"}, a \in {"EC-A", "EC-B"}}
    \cup
    {[typename |-> OperationBooking, instructor |-> None, student |-> None,
      renter |-> None, pic |-> p, aircraft |-> a] :
        p \in {"I1", "S1"}, a \in {"EC-A", "EC-B"}}
    \cup
    {[typename |-> MultiStudentBooking, instructor |-> "I1", student |-> None,
      renter |-> None, pic |-> None, aircraft |-> a] :
        a \in {"EC-A", "EC-B"}}

\* The k-th node of the response: its id is k, it is confirmed, it starts
\* on day k - 1 (no later than MaxDay) and its flight lasts 30 k minutes; a
\* single-student booking carries a planned lesson, given by its lecture
\* name, except the second booking of a response, which has none.
BookingNode(shape, k) ==
    [id |-> k,
     typename |-> shape.typename,
     startsAt |-> <<IF k - 1 <= MaxDay THEN k - 1 ELSE MaxDay, 0>>,
     endsAt |-> <<IF k - 1 <= MaxDay THEN k - 1 ELSE MaxDay, 1>>,
     comment |-> "",
     status |-> "CONFIRMED",
     instructor |-> [callSign |-> shape.instructor],
     student |-> [callSign |-> shape.student],
     renter |-> [callSign |-> shape.renter],
     pic |-> [callSign |-> shape.pic],
     aircraft |-> [callSign |-> shape.aircraft],
     flightStartsAt |-> 0,
     flightEndsAt |-> 30 * k,
     plannedLesson |->
        IF Contains("Single", shape.typename) /\ k # 2 THEN "PPL 1" ELSE None]

BookingResponses ==
    {[k \in 1..Len(shapes) |-> BookingNode(shapes[k], k)] :
        shapes \in UNION {[1..m -> BookingShapes] : m \in 1..MaxBookings}}

\* Aircraft.__init__
AircraftMinutesFromTotal(node) ==
    [fl_id |-> node.id,
     call_sign |-> node.callSign,
     total_airborne_minutes |-> node.totalAirborneMinutes,
     bookings |-> <<>>,
     sch_date_booked_flight_minutes |-> node.totalAirborneMinutes]

Aircraft(node) ==
    [fl_id |-> node.id,
     call_sign |-> node.callSign,
     total_airborne_minutes |-> node.totalAirborneMinutes,
     bookings |-> <<>>,
     sch_date_booked_flight_minutes |-> 0]

\* self.aircrafts.sort(key=total_airborne_minutes, reverse=True): stable.
RECURSIVE InsertAircraft(_, _)
InsertAircraft(x, s) ==
    IF s = <<>> THEN <<x>>
    ELSE IF Head(s).total_airborne_minutes >= x.total_airborne_minutes
         THEN <<Head(s)>> \o InsertAircraft(x, Tail(s))
         ELSE <<x>> \o s

RECURSIVE SortAircrafts(_)
SortAircrafts(s) ==
    IF s = <<>> THEN <<>>
    ELSE InsertAircraft(s[Len(s)], SortAircrafts(SubSeq(s, 1, Len(s) - 1)))

\* User.__init__ with data = the raw node; get_bookings and get_trainings
\* add the keys "bookings" and "trainings" to data (empty: the key is absent).
\* The attributes initialize creates (is_available,
\* airborne_time_on_scheduling_date, tiredness) are FALSE, 0 and <<>> until
\* then; trainings is <<>> for None, a list of trainings never being empty.
User(node, role) ==
    [call_sign |-> node.callSign,
     type |-> role,
     data |-> [flights |-> node.flights.nodes,
               availabilities |-> node.availabilities.nodes,
               bookings |-> <<>>,
               trainings |-> <<>>],
     flights |-> <<>>,
     availabilities |-> <<>>,
     is_available |-> FALSE,
     bookings |-> <<>>,
     classes |-> <<>>,
     trainings |-> <<>>,
     days_since_last_flight |-> [inf |-> TRUE, days |-> 0],
     airborne_time_mtd_minutes |-> 0,
     airborne_time_on_scheduling_date |-> 0,
     tiredness |-> <<>>,
     has_booking_on_scheduling_date |-> FALSE]

\* School.create_users
School_create_users(nodes, role) == [i \in 1..Len(nodes) |-> User(nodes[i], role)]

\* self.instructors + self.students, as references into role_groups.
AllUsers(rg) ==
    [n \in 1..(Len(rg[1]) + Len(rg[2])) |->
        IF n <= Len(rg[1]) THEN <<1, n>> ELSE <<2, n - Len(rg[1])>>]

\* get_classes, lines 118-129: the users of one class node, member by
\* member, role group by role group, every user with that exact call sign.
MatchingUsersAnyCallSign(group, g, cs, i) == [k \in 1..Len(group) |-> <<g, k>>]

RECURSIVE MatchingUsers(_, _, _, _)
MatchingUsers(group, g, cs, i) ==
    IF i > Len(group) THEN <<>>
    ELSE (IF group[i].call_sign = cs THEN <<(<<g, i>>)>> ELSE <<>>)
         \o MatchingUsers(group, g, cs, i + 1)

RECURSIVE ClassUsers(_, _, _)
ClassUsers(rg, members, m) ==
    IF m > Len(members) THEN <<>>
    ELSE MatchingUsers(rg[1], 1, members[m].callSign, 1)
         \o MatchingUsers(rg[2], 2, members[m].callSign, 1)
         \o ClassUsers(rg, members, m + 1)

BuiltClasses(rg, nodes) ==
    [c \in 1..Len(nodes) |->
        [name |-> nodes[c].name, users |-> ClassUsers(rg, nodes[c].users, 1)]]

\* get_classes, lines 131-133: user.classes.append(class_), class by class,
\* once for every occurrence of the user in class_.users.
RECURSIVE ClassesOfUser(_, _, _)
ClassesOfUser(cls, ref, c) ==
    IF c > Len(cls) THEN <<>>
    ELSE SelectSeq([k \in 1..Len(cls[c].users) |-> IF cls[c].users[k] = ref THEN c ELSE 0],
                   LAMBDA x : x # 0)
         \o ClassesOfUser(cls, ref, c + 1)

LinkClasses(rg, cls) ==
    [g \in 1..Len(rg) |->
        [i \in 1..Len(rg[g]) |->
            [rg[g][i] EXCEPT !.classes = @ \o ClassesOfUser(cls, <<g, i>>, 1)]]]

\* initialize, lines 63-68: the users of the classes named "... PUEDE VOLAR ...".
CanFly(name) == name = "PUEDE VOLAR"

RECURSIVE Flyers(_, _)
Flyers(cls, c) ==
    IF c > Len(cls) THEN <<>>
    ELSE (IF CanFly(cls[c].name) THEN cls[c].users ELSE <<>>) \o Flyers(cls, c + 1)

\* The characters of the call signs and lecture names of these runs.
Chars(str) ==
    CASE str = "I1" -> <<"I", "1">>
      [] str = "I2" -> <<"I", "2">>
      [] str = "S1" -> <<"S", "1">>
      [] str = "S10" -> <<"S", "1", "0">>
      [] str = "s1" -> <<"s", "1">>
      [] str = "PPL 1" -> <<"P", "P", "L", " ", "1">>
      [] str = "NAV SOLO 2" -> <<"N", "A", "V", " ", "S", "O", "L", "O", " ", "2">>

\* Line 208, `user.call_sign in training["student"]["callSign"]`: `in` on
\* two strings.
IsPartOf(a, b) == IsSubstring(Chars(a), Chars(b))

\* get_trainings, lines 205-215: a training goes to the first flyer whose
\* call sign is in the student's and whose program is active.
FirstFlyer(rg, fl, t) ==
    LET fits(k) == /\ IsPartOf(rg[fl[k][1]][fl[k][2]].call_sign, t.student.callSign)
                   /\ t.userProgram.status = "active" IN
    IF \E k \in 1..Len(fl) : fits(k)
    THEN CHOOSE k \in 1..Len(fl) : fits(k) /\ \A h \in 1..(k - 1) : ~fits(h)
    ELSE 0

RECURSIVE AttachTrainings(_, _, _, _)
AttachTrainings(rg, fl, trainings, k) ==
    IF k > Len(trainings) THEN rg
    ELSE LET f == FirstFlyer(rg, fl, trainings[k]) IN
         AttachTrainings(
            IF f = 0 THEN rg
            ELSE [rg EXCEPT ![fl[f][1]][fl[f][2]].data.trainings = Append(@, trainings[k])],
            fl, trainings, k + 1)

\* get_bookings, lines 147-175: the call signs a user's is compared with.
Parties(booking) ==
    IF Contains("Single", booking.typename)
    THEN {booking.instructor.callSign, booking.student.callSign}
    ELSE IF Contains("Operation", booking.typename) THEN {booking.pic.callSign}
    ELSE IF Contains("Rental", booking.typename) THEN {booking.renter.callSign}
    ELSE {}

\* The inner loop with its break: the first user of the group that matches.
FirstMatch(group, booking) ==
    LET fits(i) == group[i].call_sign \in Parties(booking) IN
    IF \E i \in 1..Len(group) : fits(i)
    THEN CHOOSE i \in 1..Len(group) : fits(i) /\ \A j \in 1..(i - 1) : ~fits(j)
    ELSE 0

\* One booking of the outer loop: appended to data["bookings"]["nodes"] of
\* the first matching user of every role group.
AttachBooking(rg, booking) ==
    [g \in 1..Len(rg) |->
        LET i == FirstMatch(rg[g], booking) IN
        IF i = 0 THEN rg[g]
        ELSE [rg[g] EXCEPT ![i].data.bookings = Append(@, booking)]]

RECURSIVE AttachBookings(_, _, _)
AttachBookings(rg, bookings, k) ==
    IF k > Len(bookings) THEN rg
    ELSE AttachBookings(AttachBooking(rg, bookings[k]), bookings, k + 1)

\* set_bookings: next(aircraft for aircraft in aircrafts if call_sign == ...),
\* the index of the first aircraft with that call sign; 0 when next() has
\* nothing to return and raises StopIteration.
FindAircraftOrFirst(acs, cs) ==
    IF \E j \in 1..Len(acs) : acs[j].call_sign = cs
    THEN CHOOSE j \in 1..Len(acs) :
            acs[j].call_sign = cs /\ \A h \in 1..(j - 1) : acs[h].call_sign # cs
    ELSE IF acs # <<>> THEN 1 ELSE 0

FindAircraft(acs, cs) ==
    IF \E j \in 1..Len(acs) : acs[j].call_sign = cs
    THEN CHOOSE j \in 1..Len(acs) :
            acs[j].call_sign = cs /\ \A h \in 1..(j - 1) : acs[h].call_sign # cs
    ELSE 0

\* Flight(off_block, on_block, airborne_minutes = (on - off) in minutes)
Flight(off, on) == [off_block |-> off, on_block |-> on, airborne_minutes |-> on - off]

\* booking.py, lines 15-24.
STATUSES == [CANCELLED |-> "CANCELLED", CONFIRMED |-> "CONFIRMED", PENDING |-> "PENDING"]

\* The comments and lecture names of these runs, and str.lower() on them.
Comments == {"", "Solo flight", "check ride"}
LectureNames == {"PPL 1", "NAV SOLO 2"}

lower(str) ==
    CASE str = "" -> ""
      [] str = "Solo flight" -> "solo flight"
      [] str = "check ride" -> "check ride"
      [] str = "PPL 1" -> "ppl 1"
      [] str = "NAV SOLO 2" -> "nav solo 2"

\* `"solo" in text` on the lowered texts.
HasSolo(text) == text \in {"solo flight", "nav solo 2"}

\* booking["comment"] or ""
CommentOrEmpty(comment) == IF comment = None THEN "" ELSE comment

\* Booking.__init__, lines 52-55: self.is_solo.
IsSoloCommentOnly(comment, planned_lesson) == HasSolo(lower(comment))

IsSolo(comment, planned_lesson) ==
    HasSolo(lower(comment)) \/ (planned_lesson # None /\ HasSolo(lower(planned_lesson)))

\* set_bookings, one branch taken: the Booking its constructor call builds;
\* a party the call does not pass keeps Booking.__init__'s default None.
BookingPicFromRenter(booking, j) ==
    [typename |-> booking.typename,
     starts_at |-> fromisoformat(booking.startsAt),
     ends_at |-> fromisoformat(booking.endsAt),
     comment |-> CommentOrEmpty(booking.comment),
     id |-> booking.id,
     status |-> booking.status,
     is_solo |-> IsSolo(CommentOrEmpty(booking.comment),
                        IF Contains("Single", booking.typename)
                        THEN booking.plannedLesson ELSE None),
     is_cancelled |-> (booking.status = STATUSES.CANCELLED),
     flight |-> Flight(booking.flightStartsAt, booking.flightEndsAt),
     planned_lesson |-> IF Contains("Single", booking.typename)
                        THEN booking.plannedLesson ELSE None,
     instructor |-> IF Contains("Single", booking.typename)
                    THEN booking.instructor.callSign ELSE None,
     student |-> IF Contains("Single", booking.typename)
                 THEN booking.student.callSign ELSE None,
     renter |-> IF ~Contains("Single", booking.typename) /\ Contains("Rental", booking.typename)
                THEN booking.renter.callSign ELSE None,
     pic |-> IF Contains("Single", booking.typename) THEN None
             ELSE IF Contains("Rental", booking.typename) THEN booking.renter.callSign
             ELSE booking.pic.callSign,
     aircraft |-> j]

Booking(booking, j) ==
    [typename |-> booking.typename,
     starts_at |-> fromisoformat(booking.startsAt),
     ends_at |-> fromisoformat(booking.endsAt),
     comment |-> CommentOrEmpty(booking.comment),
     id |-> booking.id,
     status |-> booking.status,
     is_solo |-> IsSolo(CommentOrEmpty(booking.comment),
                        IF Contains("Single", booking.typename)
                        THEN booking.plannedLesson ELSE None),
     is_cancelled |-> (booking.status = STATUSES.CANCELLED),
     flight |-> Flight(booking.flightStartsAt, booking.flightEndsAt),
     planned_lesson |-> IF Contains("Single", booking.typename)
                        THEN booking.plannedLesson ELSE None,
     instructor |-> IF Contains("Single", booking.typename)
                    THEN booking.instructor.callSign ELSE None,
     student |-> IF Contains("Single", booking.typename)
                 THEN booking.student.callSign ELSE None,
     renter |-> IF ~Contains("Single", booking.typename) /\ Contains("Rental", booking.typename)
                THEN booking.renter.callSign ELSE None,
     pic |-> IF /\ ~Contains("Single", booking.typename)
                /\ ~Contains("Rental", booking.typename)
                /\ Contains("Operation", booking.typename)
             THEN booking.pic.callSign ELSE None,
     aircraft |-> j]

\* The if / elif / elif of set_bookings: a branch exists for the typename.
HasBranch(typename) ==
    Contains("Single", typename) \/ Contains("Rental", typename)
        \/ Contains("Operation", typename)

\* Booking.__init__, lines 65-67: the booking joins its aircraft's list and
\* its flight minutes join the aircraft's scheduled minutes.
RegisterOnAircraft(acs, b) ==
    [acs EXCEPT ![b.aircraft].bookings = Append(@, b.id),
                ![b.aircraft].sch_date_booked_flight_minutes = @ + b.flight.airborne_minutes]

\* set_bookings from raw node k on.  A node without a branch is passed
\* over; next() without a match raises before the Booking exists and ends
\* the loop with what was built so far.
RECURSIVE set_bookings(_, _, _, _)
set_bookings(nodes, k, acs, built) ==
    IF k > Len(nodes) THEN [aircrafts |-> acs, bookings |-> built, raised |-> FALSE]
    ELSE IF ~HasBranch(nodes[k].typename) THEN set_bookings(nodes, k + 1, acs, built)
    ELSE LET j == FindAircraft(acs, nodes[k].aircraft.callSign) IN
         IF j = 0 THEN [aircrafts |-> acs, bookings |-> built, raised |-> TRUE]
         ELSE LET b == Booking(nodes[k], j) IN
              set_bookings(nodes, k + 1, RegisterOnAircraft(acs, b), Append(built, b))

\* User.initialize, lines 79-89: one warning for every booking with "Single"
\* in its typename and no planned lesson.
UserWarningsAnyVariant(u, bookings) ==
    LET lacking == SelectSeq(bookings, LAMBDA b : b.planned_lesson = None) IN
    [i \in 1..Len(lacking) |-> [call_sign |-> u.call_sign, booking |-> lacking[i].id]]

UserWarnings(u, bookings) ==
    LET lacking == SelectSeq(bookings,
                     LAMBDA b : b.planned_lesson = None /\ Contains("Single", b.typename)) IN
    [i \in 1..Len(lacking) |-> [call_sign |-> u.call_sign, booking |-> lacking[i].id]]

\* School.initialize, lines 49-73: the statement that follows each await.
AfterStepBookingsFirst(step) ==
    CASE step = "get_aircrafts" -> "get_instructors"
      [] step = "get_instructors" -> "get_students"
      [] step = "get_students" -> "get_classes"
      [] step = "get_classes" -> "get_bookings"
      [] step = "get_bookings" -> "get_trainings"
      [] step = "get_trainings" -> "initialize_users"

AfterStep(step) ==
    CASE step = "get_aircrafts" -> "get_instructors"
      [] step = "get_instructors" -> "get_students"
      [] step = "get_students" -> "get_classes"
      [] step = "get_classes" -> "get_trainings"
      [] step = "get_trainings" -> "get_bookings"
      [] step = "get_bookings" -> "initialize_users"

\* The loop of lines 73-75 has no turn when there is no user.
BeforeUsers(step, rg) ==
    IF step = "initialize_users" /\ Len(AllUsers(rg)) = 0 THEN "done" ELSE step

RunInit ==
    /\ run_pc = "get_aircrafts"
    /\ aircrafts = <<>>
    /\ role_groups = <<(<<>>), (<<>>)>>
    /\ classes = <<>>
    /\ flyers = <<>>
    /\ raw_classes = <<>>
    /\ raw_trainings = <<>>
    /\ raw_bookings = <<>>
    /\ next_user = 1
    /\ warnings = <<>>
    /\ run_error = ""
    /\ fetched = <<>>

\* initialize, lines 49-54, with School.get_aircrafts.
School_get_aircrafts(nodes) ==
    /\ run_pc = "get_aircrafts"
    /\ aircrafts' = SortAircrafts([i \in 1..Len(nodes) |-> Aircraft(nodes[i])])
    /\ run_pc' = AfterStep("get_aircrafts")
    /\ UNCHANGED <<role_groups, classes, flyers, raw_classes, raw_trainings,
                 raw_bookings, next_user, warnings, run_error>>
    /\ fetched' = Append(fetched, "get_aircrafts")
    /\ UNCHANGED <<fetchVars, userVars, mainVars, figureVars, trainingVars>>

\* initialize, line 56, with School.get_instructors.
School_get_instructors(nodes) ==
    /\ run_pc = "get_instructors"
    /\ role_groups' = <<School_create_users(nodes, "INSTRUCTOR"), <<>>>>
    /\ run_pc' = AfterStep("get_instructors")
    /\ UNCHANGED <<aircrafts, classes, flyers, raw_classes, raw_trainings,
                 raw_bookings, next_user, warnings, run_error>>
    /\ fetched' = Append(fetched, "get_instructors")
    /\ UNCHANGED <<fetchVars, userVars, mainVars, figureVars, trainingVars>>

\* initialize, lines 57-58, with School.get_students.
School_get_students(nodes) ==
    /\ run_pc = "get_students"
    /\ role_groups' = <<role_groups[1], School_create_users(nodes, "STUDENT")>>
    /\ run_pc' = AfterStep("get_students")
    /\ UNCHANGED <<aircrafts, classes, flyers, raw_classes, raw_trainings,
                 raw_bookings, next_user, warnings, run_error>>
    /\ fetched' = Append(fetched, "get_students")
    /\ UNCHANGED <<fetchVars, userVars, mainVars, figureVars, trainingVars>>

\* initialize, lines 60-68, with School.get_classes.
School_get_classes(responses) ==
    /\ run_pc = "get_classes"
    /\ \E nodes \in responses :
          LET cls == classes \o BuiltClasses(role_groups, nodes) IN
          /\ classes' = cls
          /\ role_groups' = LinkClasses(role_groups, cls)
          /\ flyers' = Flyers(cls, 1)
          /\ raw_classes' = nodes
    /\ run_pc' = AfterStep("get_classes")
    /\ UNCHANGED <<aircrafts, raw_trainings, raw_bookings, next_user, warnings,
                 run_error>>
    /\ fetched' = Append(fetched, "get_classes")
    /\ UNCHANGED <<fetchVars, userVars, mainVars, figureVars, trainingVars>>

\* initialize, line 69, with School.get_trainings.
School_get_trainings(responses) ==
    /\ run_pc = "get_trainings"
    /\ \E nodes \in responses :
          /\ role_groups' = AttachTrainings(role_groups, flyers, nodes, 1)
          /\ raw_trainings' = nodes
    /\ run_pc' = BeforeUsers(AfterStep("get_trainings"), role_groups)
    /\ UNCHANGED <<aircrafts, classes, flyers, raw_classes, raw_bookings, next_user,
                 warnings, run_error>>
    /\ fetched' = Append(fetched, "get_trainings")
    /\ UNCHANGED <<fetchVars, userVars, mainVars, figureVars, trainingVars>>

\* initialize, line 71, with School.get_bookings.
School_get_bookings(responses) ==
    /\ run_pc = "get_bookings"
    /\ \E nodes \in responses :
          /\ raw_bookings' = nodes
          /\ role_groups' = AttachBookings(role_groups, nodes, 1)
    /\ run_pc' = BeforeUsers(AfterStep("get_bookings"), role_groups)
    /\ UNCHANGED <<aircrafts, classes, flyers, raw_classes, raw_trainings, next_user,
                 warnings, run_error>>
    /\ fetched' = Append(fetched, "get_bookings")
    /\ UNCHANGED <<fetchVars, userVars, mainVars, figureVars, trainingVars>>

(***************************************************************************)
(* classes/user.py: User.initialize for one user, with set_flights,        *)
(* set_bookings and the figures of lines 90-165.  Here days are counted    *)
(* from 31 January: day 0 is 31 January, day 1 is 1 February; a time of    *)
(* day is a minute of the day.                                             *)
(***************************************************************************)
\* date.replace(day=1) on these days.
FirstOfMonth(d) == IF d >= 1 THEN 1 ELSE d - 30

FigureDays == {0, 1, 2}
SchedulingDays == {1, 2}

\* -math.inf and the integers a float can also be.
MinusInf == [inf |-> TRUE, days |-> 0]
Finite(n) == [inf |-> FALSE, days |-> n]

\* Fractions <<numerator, denominator>> for the divisions of line 147-159.
Fraction(n) == <<n, 1>>
FractionPlus(a, b) == <<a[1] * b[2] + b[1] * a[2], a[2] * b[2]>>
FractionOver(a, n) == <<a[1], a[2] * n>>
FractionTimes(a, n) == <<a[1] * n, a[2]>>

\* (b - a).total_seconds() / 60 for two datetimes.
MinutesBetween(a, b) == (b.date - a.date) * 24 * 60 + (b.time - a.time)

RECURSIVE Sum(_)
Sum(s) == IF s = <<>> THEN 0 ELSE Head(s) + Sum(Tail(s))

\* The raw flight nodes of the user: the k-th flight lasts 210 k minutes.
FlightNode(day, k) == [offBlock |-> <<day, 0>>, onBlock |-> <<day, 210 * k>>]

FlightResponses ==
    {[k \in 1..Len(days) |-> FlightNode(days[k], k)] :
        days \in UNION {[1..n -> FigureDays] : n \in 0..MaxFlights}}

\* The raw bookings get_bookings attached to the user: single-student
\* bookings of instructor I1 with student S1 on EC-A, each with a status, a
\* comment and a planned lesson; the k-th starts at minute k of its day and
\* its flight lasts 30 k minutes.
BookingKinds ==
    {[status |-> "CONFIRMED", comment |-> "", plannedLesson |-> "PPL 1"],
     [status |-> "CANCELLED", comment |-> "", plannedLesson |-> "PPL 1"],
     [status |-> "CONFIRMED", comment |-> "Solo flight", plannedLesson |-> "PPL 1"],
     [status |-> "CONFIRMED", comment |-> "", plannedLesson |-> "NAV SOLO 2"],
     [status |-> "PENDING", comment |-> None, plannedLesson |-> None]}

UserBookingNode(kind, day, k) ==
    [id |-> k,
     typename |-> SingleStudentBooking,
     startsAt |-> <<day, k>>,
     endsAt |-> <<day, k + 30 * k>>,
     comment |-> kind.comment,
     status |-> kind.status,
     instructor |-> [callSign |-> "I1"],
     student |-> [callSign |-> "S1"],
     renter |-> [callSign |-> None],
     pic |-> [callSign |-> None],
     aircraft |-> [callSign |-> "EC-A"],
     flightStartsAt |-> 0,
     flightEndsAt |-> 30 * k,
     plannedLesson |-> kind.plannedLesson]

UserBookingResponses ==
    {[k \in 1..Len(picks) |-> UserBookingNode(picks[k][1], picks[k][2], k)] :
        picks \in UNION {[1..n -> BookingKinds \X FigureDays] : n \in 0..MaxUserBookings}}

\* set_flights, lines 173-186: one Flight for every raw node.
UserFlight(node) ==
    [off_block |-> fromisoformat(node.offBlock),
     on_block |-> fromisoformat(node.onBlock),
     airborne_minutes |->
        MinutesBetween(fromisoformat(node.offBlock), fromisoformat(node.onBlock))]

\* list.sort(key=off_block, reverse=True): stable, latest first.
RECURSIVE InsertFlight(_, _)
InsertFlight(x, s) ==
    IF s = <<>> THEN <<x>>
    ELSE IF DatetimeLe(x.off_block, Head(s).off_block)
         THEN <<Head(s)>> \o InsertFlight(x, Tail(s))
         ELSE <<x>> \o s

RECURSIVE SortFlights(_)
SortFlights(s) ==
    IF s = <<>> THEN <<>>
    ELSE InsertFlight(s[Len(s)], SortFlights(SubSeq(s, 1, Len(s) - 1)))

\* set_flights, lines 173-190.
set_flights(nodes) == SortFlights([i \in 1..Len(nodes) |-> UserFlight(nodes[i])])

\* Line 96: self.bookings.sort(key=starts_at, reverse=True).
RECURSIVE InsertBooking(_, _)
InsertBooking(x, s) ==
    IF s = <<>> THEN <<x>>
    ELSE IF DatetimeLe(x.starts_at, Head(s).starts_at)
         THEN <<Head(s)>> \o InsertBooking(x, Tail(s))
         ELSE <<x>> \o s

SortBookingsNot(s) == s

RECURSIVE SortBookings(_)
SortBookings(s) ==
    IF s = <<>> THEN <<>>
    ELSE InsertBooking(s[Len(s)], SortBookings(SubSeq(s, 1, Len(s) - 1)))

\* Lines 94-105: days_since_last_flight from the sorted bookings, else from
\* the sorted flights, else as it was.
DaysSinceLastFlight(was, bs, fs, sd) ==
    IF bs # <<>> THEN Finite(sd - date(bs[1].starts_at))
    ELSE IF fs # <<>> THEN Finite(sd - date(SortFlights(fs)[1].off_block))
    ELSE was

\* Lines 111-123: airborne_time_mtd_minutes.
AirborneTimeMtdAfterTheFirst(fs, bs, sd) ==
    Sum([i \in 1..Len(fs) |->
            IF date(fs[i].off_block) > FirstOfMonth(sd) /\ date(fs[i].off_block) <= sd
            THEN fs[i].airborne_minutes ELSE 0])
    + Sum([i \in 1..Len(bs) |->
            IF /\ date(bs[i].starts_at) > FirstOfMonth(sd)
               /\ date(bs[i].starts_at) <= sd
               /\ ~bs[i].is_solo
               /\ ~bs[i].is_cancelled
            THEN bs[i].flight.airborne_minutes ELSE 0])

AirborneTimeMtd(fs, bs, sd) ==
    Sum([i \in 1..Len(fs) |->
            IF date(fs[i].off_block) >= FirstOfMonth(sd) /\ date(fs[i].off_block) <= sd
            THEN fs[i].airborne_minutes ELSE 0])
    + Sum([i \in 1..Len(bs) |->
            IF /\ date(bs[i].starts_at) >= FirstOfMonth(sd)
               /\ date(bs[i].starts_at) <= sd
               /\ ~bs[i].is_solo
               /\ ~bs[i].is_cancelled
            THEN bs[i].flight.airborne_minutes ELSE 0])

\* Lines 126-140: airborne_time_on_scheduling_date; `or 0` keeps a zero.
AirborneTimeOnSchedulingDateWithCancelled(fs, bs, sd) ==
    Sum([i \in 1..Len(fs) |->
            IF date(fs[i].off_block) = sd THEN fs[i].airborne_minutes ELSE 0])
    + Sum([i \in 1..Len(bs) |->
            IF date(bs[i].starts_at) = sd /\ ~bs[i].is_solo
            THEN bs[i].flight.airborne_minutes ELSE 0])

AirborneTimeOnSchedulingDate(fs, bs, sd) ==
    LET total ==
          Sum([i \in 1..Len(fs) |->
                  IF date(fs[i].off_block) = sd THEN fs[i].airborne_minutes ELSE 0])
          + Sum([i \in 1..Len(bs) |->
                  IF /\ date(bs[i].starts_at) = sd
                     /\ ~bs[i].is_solo
                     /\ ~bs[i].is_cancelled
                  THEN bs[i].flight.airborne_minutes ELSE 0]) IN
    IF total # 0 THEN total ELSE 0

\* Lines 150-155: the sum of the booleans.
QualifyingBookings(bs, sd) ==
    Sum([i \in 1..Len(bs) |->
            IF date(bs[i].starts_at) = sd /\ ~bs[i].is_solo /\ ~bs[i].is_cancelled
            THEN 1 ELSE 0])

\* Lines 147-159: tiredness; `or 0` keeps a zero.
TirednessHoursOnly(on_date, bs, sd) ==
    FractionTimes(FractionOver(FractionOver(Fraction(on_date), 60), 9), 100)

Tiredness(on_date, bs, sd) ==
    FractionTimes(
        FractionOver(
            FractionPlus(FractionOver(Fraction(on_date), 60),
                         Fraction(QualifyingBookings(bs, sd))),
            9),
        100)

\* Lines 162-165.
HasBookingOnSchedulingDateNotSolo(bs, sd) ==
    \E i \in 1..Len(bs) :
        date(bs[i].starts_at) = sd /\ ~bs[i].is_cancelled /\ ~bs[i].is_solo

HasBookingOnSchedulingDate(bs, sd) ==
    \E i \in 1..Len(bs) : date(bs[i].starts_at) = sd /\ ~bs[i].is_cancelled

FiguresInit ==
    /\ u_type = "INSTRUCTOR"
    /\ u_data = [flights |-> [nodes |-> <<>>], bookings |-> [nodes |-> <<>>]]
    /\ u_aircrafts = <<>>
    /\ u_flights = <<>>
    /\ u_bookings = <<>>
    /\ days_since_last_flight = MinusInf
    /\ airborne_time_mtd_minutes = 0
    /\ airborne_time_on_scheduling_date = 0
    /\ tiredness = <<>>
    /\ has_booking_on_scheduling_date = FALSE
    /\ figures_pc = "none"

\* School(scheduling_date), the aircraft EC-A, and a user created with its
\* raw node and the bookings get_bookings attached (User.__init__, lines
\* 45-66).
CreateUserWithData ==
    /\ figures_pc = "none"
    /\ \E type \in Roles, sd \in SchedulingDays,
          fnodes \in FlightResponses, bnodes \in UserBookingResponses :
          /\ u_type' = type
          /\ SCHEDULING_DATE' = sd
          /\ u_data' = [flights |-> [nodes |-> fnodes], bookings |-> [nodes |-> bnodes]]
    /\ u_aircrafts' = <<Aircraft(AircraftNode("EC-A", 100))>>
    /\ u_flights' = <<>>
    /\ u_bookings' = <<>>
    /\ days_since_last_flight' = MinusInf
    /\ airborne_time_mtd_minutes' = 0
    /\ has_booking_on_scheduling_date' = FALSE
    /\ figures_pc' = "created"
    /\ UNCHANGED <<airborne_time_on_scheduling_date, tiredness>>
    /\ UNCHANGED <<data, availabilities, is_available, user_pc>>
    /\ UNCHANGED <<fetchVars, runVars, mainVars, trainingVars>>

\* User.initialize, lines 73-165.
initialize ==
    /\ figures_pc = "created"
    /\ LET fs == u_flights \o set_flights(u_data.flights.nodes)
           r == set_bookings(u_data.bookings.nodes, 1, u_aircrafts, <<>>)
           built == u_bookings \o r.bookings
           bs == IF built # <<>> THEN SortBookings(built) ELSE built
           sd == SCHEDULING_DATE
           on_date == AirborneTimeOnSchedulingDate(fs, bs, sd) IN
       /\ u_flights' = fs
       /\ u_bookings' = bs
       /\ u_aircrafts' = r.aircrafts
       /\ days_since_last_flight' = DaysSinceLastFlight(days_since_last_flight, bs, fs, sd)
       /\ airborne_time_mtd_minutes' = AirborneTimeMtd(fs, bs, sd)
       /\ airborne_time_on_scheduling_date' = on_date
       /\ tiredness' = IF u_type = "INSTRUCTOR" THEN Tiredness(on_date, bs, sd) ELSE tiredness
       /\ has_booking_on_scheduling_date' = HasBookingOnSchedulingDate(bs, sd)
    /\ figures_pc' = "initialized"
    /\ UNCHANGED <<u_type, u_data>>
    /\ UNCHANGED <<fetchVars, userVars, runVars, mainVars, trainingVars>>

FiguresNext ==
    \/ CreateUserWithData
    \/ initialize

(***************************************************************************)
(* classes/training.py: Training.__init__.  A string is the sequence of    *)
(* its characters, so that `x in name` is Python's substring test.         *)
(***************************************************************************)
s_PPL == <<"P", "P", "L">>
s_LAPL == <<"L", "A", "P", "L">>
s_TIME_BUILDING == <<"T", "I", "M", "E", " ", "B", "U", "I", "L", "D", "I", "N", "G">>
s_IR == <<"I", "R">>
s_BASIC == <<"B", "A", "S", "I", "C">>
s_NIGHT == <<"N", "I", "G", "H", "T">>
s_MEP == <<"M", "E", "P">>
s_Initial == <<"I", "n", "i", "t", "i", "a", "l">>
s_IR_MEPL == <<"I", "R", "-", "M", "E", "P", "L">>
s_CPL == <<"C", "P", "L">>
s_ATP == <<"A", "T", "P">>
s_FI == <<"F", "I">>
s_UPRT == <<"U", "P", "R", "T">>
s_Skill == <<"S", "k", "i", "l", "l">>

\* The program names of the trainings: up to MaxNameParts of these words,
\* with a space between two words.
ProgramWords ==
    {s_PPL, s_LAPL, s_TIME_BUILDING, s_IR, s_BASIC, s_NIGHT, s_MEP, s_Initial,
     s_IR_MEPL, s_CPL, s_ATP, s_FI, s_UPRT}

RECURSIVE Join(_)
Join(ws) ==
    IF Len(ws) = 1 THEN ws[1] ELSE ws[1] \o <<" ">> \o Join(Tail(ws))

ProgramNames ==
    {Join(ws) : ws \in UNION {[1..n -> ProgramWords] : n \in 1..MaxNameParts}}

\* The names of the trainings: a lesson and a skill test.
TrainingNames ==
    {<<"N", "A", "V", " ", "1">>, s_Skill \o <<" ", "T", "e", "s", "t">>}

\* The lecture of the trainings: every kind of minutes of a lecture.
Lectures ==
    {[vfrDualMinutes |-> 0, ifrDualMinutes |-> 45, vfrSoloMinutes |-> 0,
      vfrSimMinutes |-> 0, ifrSimMinutes |-> 30, ifrSpicMinutes |-> 0,
      vfrSpicMinutes |-> 0],
     [vfrDualMinutes |-> 0, ifrDualMinutes |-> 0, vfrSoloMinutes |-> 0,
      vfrSimMinutes |-> 0, ifrSimMinutes |-> 0, ifrSpicMinutes |-> 0,
      vfrSpicMinutes |-> 0]}

\* Lines 26-54: order, preferred_aircraft, required_aircraft.
OrderAndAircraftSkillFirst(program_name, name) ==
    IF IsSubstring(s_Skill, name)
    THEN [order |-> 8, preferred_aircraft |-> None, required_aircraft |-> None]
    ELSE IF IsSubstring(s_PPL, program_name) \/ IsSubstring(s_LAPL, program_name)
    THEN [order |-> 1, preferred_aircraft |-> "2008", required_aircraft |-> None]
    ELSE IF IsSubstring(s_TIME_BUILDING, program_name)
    THEN [order |-> 2, preferred_aircraft |-> "150", required_aircraft |-> None]
    ELSE IF IsSubstring(s_IR, program_name) /\ IsSubstring(s_BASIC, program_name)
    THEN [order |-> 3, preferred_aircraft |-> None, required_aircraft |-> "2008"]
    ELSE IF IsSubstring(s_NIGHT, program_name)
    THEN [order |-> 4, preferred_aircraft |-> None, required_aircraft |-> "2008"]
    ELSE IF IsSubstring(s_MEP, program_name) /\ IsSubstring(s_Initial, program_name)
    THEN [order |-> 5, preferred_aircraft |-> None, required_aircraft |-> "2006"]
    ELSE IF IsSubstring(s_IR_MEPL, program_name)
    THEN [order |-> 6, preferred_aircraft |-> None, required_aircraft |-> None]
    ELSE IF IsSubstring(s_CPL, program_name)
    THEN [order |-> 7, preferred_aircraft |-> None, required_aircraft |-> None]
    ELSE IF IsSubstring(s_ATP, program_name)
    THEN [order |-> 99, preferred_aircraft |-> None, required_aircraft |-> None]
    ELSE IF IsSubstring(s_FI, program_name)
    THEN [order |-> 100, preferred_aircraft |-> "2008", required_aircraft |-> None]
    ELSE [order |-> 0, preferred_aircraft |-> None, required_aircraft |-> None]

OrderAndAircraft(program_name, name) ==
    IF IsSubstring(s_PPL, program_name) \/ IsSubstring(s_LAPL, program_name)
    THEN [order |-> 1, preferred_aircraft |-> "2008", required_aircraft |-> None]
    ELSE IF IsSubstring(s_TIME_BUILDING, program_name)
    THEN [order |-> 2, preferred_aircraft |-> "150", required_aircraft |-> None]
    ELSE IF IsSubstring(s_IR, program_name) /\ IsSubstring(s_BASIC, program_name)
    THEN [order |-> 3, preferred_aircraft |-> None, required_aircraft |-> "2008"]
    ELSE IF IsSubstring(s_NIGHT, program_name)
    THEN [order |-> 4, preferred_aircraft |-> None, required_aircraft |-> "2008"]
    ELSE IF IsSubstring(s_MEP, program_name) /\ IsSubstring(s_Initial, program_name)
    THEN [order |-> 5, preferred_aircraft |-> None, required_aircraft |-> "2006"]
    ELSE IF IsSubstring(s_IR_MEPL, program_name) /\ ~IsSubstring(s_Skill, name)
    THEN [order |-> 6, preferred_aircraft |-> None, required_aircraft |-> None]
    ELSE IF IsSubstring(s_CPL, program_name) /\ ~IsSubstring(s_Skill, name)
    THEN [order |-> 7, preferred_aircraft |-> None, required_aircraft |-> None]
    ELSE IF IsSubstring(s_Skill, name)
    THEN [order |-> 8, preferred_aircraft |-> None, required_aircraft |-> None]
    ELSE IF IsSubstring(s_ATP, program_name)
    THEN [order |-> 99, preferred_aircraft |-> None, required_aircraft |-> None]
    ELSE IF IsSubstring(s_FI, program_name)
    THEN [order |-> 100, preferred_aircraft |-> "2008", required_aircraft |-> None]
    ELSE [order |-> 0, preferred_aircraft |-> None, required_aircraft |-> None]

\* Lines 56-64: the first of the lecture's minutes that is not zero.
AirTimeMinutes(lecture) ==
    IF lecture.vfrDualMinutes # 0 THEN lecture.vfrDualMinutes
    ELSE IF lecture.ifrDualMinutes # 0 THEN lecture.ifrDualMinutes
    ELSE IF lecture.vfrSoloMinutes # 0 THEN lecture.vfrSoloMinutes
    ELSE IF lecture.vfrSimMinutes # 0 THEN lecture.vfrSimMinutes
    ELSE IF lecture.ifrSimMinutes # 0 THEN lecture.ifrSimMinutes
    ELSE IF lecture.ifrSpicMinutes # 0 THEN lecture.ifrSpicMinutes
    ELSE lecture.vfrSpicMinutes

TrainingInit ==
    /\ training_args = <<>>
    /\ training = <<>>
    /\ training_pc = "none"

\* Training.__init__(id, name, status, program, lecture, booked), lines
\* 11-66: the object.
Training_init(id, name, status, program, lecture, booked) ==
    LET ranked == OrderAndAircraft(program.name, name) IN
    [id |-> id, name |-> name, status |-> status, program |-> program,
     lecture |-> lecture,
     order |-> ranked.order,
     preferred_aircraft |-> ranked.preferred_aircraft,
     required_aircraft |-> ranked.required_aircraft,
     air_time_minutes |-> AirTimeMinutes(lecture),
     booked |-> booked]

\* ord() of the characters of the training names of these runs.
ord(c) ==
    CASE c = " " -> 32
      [] c = "1" -> 49
      [] c = "2" -> 50
      [] c = "A" -> 65
      [] c = "L" -> 76
      [] c = "N" -> 78
      [] c = "O" -> 79
      [] c = "P" -> 80
      [] c = "S" -> 83
      [] c = "V" -> 86

\* a < b on two strings.
RECURSIVE StrLess(_, _)
StrLess(a, b) ==
    IF b = <<>> THEN FALSE
    ELSE IF a = <<>> THEN TRUE
    ELSE IF ord(Head(a)) # ord(Head(b)) THEN ord(Head(a)) < ord(Head(b))
    ELSE StrLess(Tail(a), Tail(b))

\* (a.order, a.name) <= (b.order, b.name), the key of line 365.
KeyLe(a, b) ==
    a.order < b.order \/ (a.order = b.order /\ ~StrLess(b.name, a.name))

\* user.py line 365: self.trainings.sort(key=(order, name)), stable.
RECURSIVE InsertTraining(_, _)
InsertTraining(x, s) ==
    IF s = <<>> THEN <<x>>
    ELSE IF KeyLe(Head(s), x)
         THEN <<Head(s)>> \o InsertTraining(x, Tail(s))
         ELSE <<x>> \o s

RECURSIVE SortTrainings(_)
SortTrainings(s) ==
    IF s = <<>> THEN <<>>
    ELSE InsertTraining(s[Len(s)], SortTrainings(SubSeq(s, 1, Len(s) - 1)))

\* user.py lines 354-359: any booking with a planned lesson whose lecture
\* name is the name of the training.
IsBookedAlways(name, bookings) == TRUE

IsBooked(name, bookings) ==
    \E i \in 1..Len(bookings) :
        /\ bookings[i].planned_lesson # None
        /\ Chars(bookings[i].planned_lesson) = name

\* User.set_trainings, user.py lines 334-365, on data["trainings"]["nodes"]
\* (<<>>: the key is absent and self.trainings is None) and self.bookings.
set_trainings(nodes, bookings) ==
    IF nodes = <<>> THEN <<>>
    ELSE SortTrainings(
            [i \in 1..Len(nodes) |->
                Training_init(nodes[i].id, nodes[i].name, nodes[i].status,
                              nodes[i].userProgram, nodes[i].lecture,
                              IsBooked(nodes[i].name, bookings))])

\* Training(id, name, status, program, lecture, booked), lines 11-66.
Training ==
    /\ training_pc = "none"
    /\ \E program_name \in ProgramNames, name \in TrainingNames,
          lecture \in Lectures, booked \in BOOLEAN :
          /\ training_args' = [id |-> 1, name |-> name, status |-> "active",
                               program |-> [name |-> program_name],
                               lecture |-> lecture, booked |-> booked]
          /\ training' = Training_init(1, name, "active", [name |-> program_name],
                                       lecture, booked)
    /\ training_pc' = "built"
    /\ UNCHANGED <<fetchVars, userVars, runVars, mainVars, figureVars>>

TrainingNext ==
    \/ Training


(***************************************************************************)
(* classes/school.py: the loop of School.initialize over the users, with   *)
(* the whole of User.initialize for the user of the turn.                  *)
(***************************************************************************)
\* initialize, lines 73-75: one turn of the loop, user.initialize(aircrafts):
\* set_flights, set_availabilities, set_bookings, set_trainings, the
\* warnings and the figures (user.py lines 73-166).  An exception of
\* set_bookings ends the run where it is raised: nothing catches it.
User_initialize ==
    /\ run_pc = "initialize_users"
    /\ LET ref == AllUsers(role_groups)[next_user]
           u == role_groups[ref[1]][ref[2]]
           sd == SCHEDULING_DATE
           fs == u.flights \o set_flights(u.data.flights)
           av == BuiltAvailabilities(u.availabilities, u.data.availabilities)
           r == set_bookings(u.data.bookings, 1, aircrafts, <<>>)
           built == u.bookings \o r.bookings
           bs == IF built # <<>> THEN SortBookings(built) ELSE built
           on_date == AirborneTimeOnSchedulingDate(fs, bs, sd)
           upto_bookings == [u EXCEPT !.flights = fs,
                                      !.availabilities = av,
                                      !.is_available = IsAvailable(av, sd),
                                      !.bookings = built] IN
       /\ aircrafts' = r.aircrafts
       /\ IF r.raised
          THEN /\ role_groups' = [role_groups EXCEPT ![ref[1]][ref[2]] = upto_bookings]
               /\ run_pc' = "raised"
               /\ run_error' = "StopIteration"
               /\ UNCHANGED <<next_user, warnings>>
          ELSE /\ role_groups' =
                     [role_groups EXCEPT ![ref[1]][ref[2]] =
                        [upto_bookings EXCEPT
                           !.trainings = set_trainings(u.data.trainings, built),
                           !.bookings = bs,
                           !.days_since_last_flight =
                               DaysSinceLastFlight(u.days_since_last_flight, bs, fs, sd),
                           !.airborne_time_mtd_minutes = AirborneTimeMtd(fs, bs, sd),
                           !.airborne_time_on_scheduling_date = on_date,
                           !.tiredness = IF u.type = "INSTRUCTOR"
                                         THEN Tiredness(on_date, bs, sd) ELSE @,
                           !.has_booking_on_scheduling_date =
                               HasBookingOnSchedulingDate(bs, sd)]]
               /\ warnings' = warnings \o UserWarnings(u, built)
               /\ next_user' = next_user + 1
               /\ run_pc' = IF next_user = Len(AllUsers(role_groups))
                            THEN "done" ELSE "initialize_users"
               /\ UNCHANGED run_error
    /\ UNCHANGED <<classes, flyers, raw_classes, raw_trainings, raw_bookings, fetched>>
    /\ UNCHANGED <<fetchVars, userVars, mainVars, figureVars, trainingVars>>

RunNext ==
    \/ \E nodes \in AircraftResponses : School_get_aircrafts(nodes)
    \/ \E nodes \in InstructorResponses : School_get_instructors(nodes)
    \/ \E nodes \in StudentResponses : School_get_students(nodes)
    \/ School_get_classes(ClassResponses)
    \/ School_get_trainings(TrainingResponses)
    \/ School_get_bookings(BookingResponses)
    \/ User_initialize

(***************************************************************************)
(* main.py: the hotkeys (callbacks on the keyboard library's thread), the  *)
(* waiting loop of main() and scheduler().  Dates are days counted from    *)
(* the day the program starts.                                             *)
(***************************************************************************)
\* Line 350: TODAY = datetime.date.today().
TODAY == 0

\* The state School.__init__ leaves (lines 29-43), before initialize.
NewSchool ==
    /\ run_pc' = "get_aircrafts"
    /\ aircrafts' = <<>>
    /\ role_groups' = <<(<<>>), (<<>>)>>
    /\ classes' = <<>>
    /\ flyers' = <<>>
    /\ raw_classes' = <<>>
    /\ raw_trainings' = <<>>
    /\ raw_bookings' = <<>>
    /\ next_user' = 1
    /\ warnings' = <<>>
    /\ run_error' = ""
    /\ fetched' = <<>>

\* No School object: before the first run and after scheduler() returned.
NoSchool ==
    /\ run_pc = "none"
    /\ aircrafts = <<>>
    /\ role_groups = <<(<<>>), (<<>>)>>
    /\ classes = <<>>
    /\ flyers = <<>>
    /\ raw_classes = <<>>
    /\ raw_trainings = <<>>
    /\ raw_bookings = <<>>
    /\ next_user = 1
    /\ warnings = <<>>
    /\ run_error = ""
    /\ fetched = <<>>

\* Lines 342-351: the state when main() is first called.
MainInit ==
    /\ scheduling_date = TODAY
    /\ start = FALSE
    /\ main_pc = "waiting"
    /\ debugging \in BOOLEAN

\* Inside asyncio.run(scheduler()), School constructed on TODAY.
MainRunning ==
    /\ scheduling_date = TODAY
    /\ start = TRUE
    /\ main_pc = "initialize"
    /\ debugging = FALSE

\* The process is alive: it has not returned from main and no exception
\* has left asyncio.run.
Alive == main_pc # "exited" /\ run_pc # "raised"

\* fl.SCHEDULING_DATE after a date hotkey moved main's scheduling_date:
\* the callbacks rebind main's global only.
DateSeenByRunFollowsHotkey(fl_date, moved) == moved

DateSeenByRun(fl_date, moved) == fl_date

\* The titles GetWindowTextA can give for the foreground window; "" stands
\* for a title that does not decode.
Titles == {"Command Prompt", "Windows PowerShell", "Flightlogger - Browser", ""}

\* Lines 223-244: is_active_window() while the foreground window has this
\* title; debugging is set by the -d argument (lines 327-337).
is_active_window(title) ==
    debugging \/ title \in {"Command Prompt", "Windows PowerShell"}

\* Lines 250-252: the date after increase_date().
IncreasedDate(d, active) == IF active THEN d + 1 ELSE d

\* Lines 265-269: the date after decrease_date(); never before TODAY.
DecreasedDateBeforeToday(d, active) == IF active THEN d - 1 ELSE d

DecreasedDate(d, active) == IF active /\ d > TODAY THEN d - 1 ELSE d

\* What is_active_window() can return to a caller.
WindowChecks == {is_active_window(title) : title \in Titles}

\* Lines 247-259, the right hotkey.
increase_date ==
    /\ Alive
    /\ scheduling_date < MaxDay
    /\ \E active \in WindowChecks :
          LET moved == IncreasedDate(scheduling_date, active) IN
          /\ scheduling_date' = moved
          /\ SCHEDULING_DATE' = DateSeenByRun(SCHEDULING_DATE, moved)
    /\ UNCHANGED <<start, main_pc, data, availabilities, is_available, user_pc>>
    /\ UNCHANGED <<fetchVars, runVars>>
    /\ UNCHANGED <<debugging, figureVars, trainingVars>>

\* Lines 262-277, the left hotkey.
decrease_date ==
    /\ Alive
    /\ \E active \in WindowChecks :
          LET moved == DecreasedDate(scheduling_date, active) IN
          /\ scheduling_date' = moved
          /\ SCHEDULING_DATE' = DateSeenByRun(SCHEDULING_DATE, moved)
    /\ UNCHANGED <<start, main_pc, data, availabilities, is_available, user_pc>>
    /\ UNCHANGED <<fetchVars, runVars>>
    /\ UNCHANGED <<debugging, figureVars, trainingVars>>

\* Line 347: the enter hotkey.
press_enter ==
    /\ Alive
    /\ start' = TRUE
    /\ UNCHANGED <<scheduling_date, main_pc>>
    /\ UNCHANGED <<fetchVars, userVars, runVars>>
    /\ UNCHANGED <<debugging, figureVars, trainingVars>>

\* Lines 300-322: the waiting loop has seen start; the run begins when the
\* console is the active window, else start is cleared.
main_start ==
    /\ main_pc = "waiting"
    /\ start
    /\ \E active \in WindowChecks :
          IF active
          THEN main_pc' = "scheduler" /\ UNCHANGED start
          ELSE start' = FALSE /\ UNCHANGED main_pc
    /\ UNCHANGED scheduling_date
    /\ UNCHANGED <<fetchVars, userVars, runVars>>
    /\ UNCHANGED <<debugging, figureVars, trainingVars>>

\* Lines 300-305: ten minutes without start.
main_timeout ==
    /\ main_pc = "waiting"
    /\ ~start
    /\ main_pc' = "exited"
    /\ UNCHANGED <<scheduling_date, start>>
    /\ UNCHANGED <<fetchVars, userVars, runVars>>
    /\ UNCHANGED <<debugging, figureVars, trainingVars>>

\* scheduler(), lines 152-162: School(scheduling_date=scheduling_date) sets
\* fl.SCHEDULING_DATE (school.py line 30) and builds an empty School.
scheduler_School ==
    /\ main_pc = "scheduler"
    /\ SCHEDULING_DATE' = scheduling_date
    /\ NewSchool
    /\ main_pc' = "initialize"
    /\ UNCHANGED <<scheduling_date, start>>
    /\ UNCHANGED <<data, availabilities, is_available, user_pc>>
    /\ UNCHANGED fetchVars
    /\ UNCHANGED <<debugging, figureVars, trainingVars>>

\* scheduler(), lines 165-220, after initialize returned: the tables are
\* printed, start is cleared and the School goes with scheduler's frame.
scheduler_return ==
    /\ main_pc = "initialize"
    /\ run_pc = "done"
    /\ start' = FALSE
    /\ main_pc' = "waiting"
    /\ run_pc' = "none"
    /\ aircrafts' = <<>>
    /\ role_groups' = <<(<<>>), (<<>>)>>
    /\ classes' = <<>>
    /\ flyers' = <<>>
    /\ raw_classes' = <<>>
    /\ raw_trainings' = <<>>
    /\ raw_bookings' = <<>>
    /\ next_user' = 1
    /\ warnings' = <<>>
    /\ run_error' = ""
    /\ fetched' = <<>>
    /\ UNCHANGED scheduling_date
    /\ UNCHANGED <<fetchVars, userVars>>
    /\ UNCHANGED <<debugging, figureVars, trainingVars>>

\* What fl.get_bookings returns in the runs the hotkeys interleave with: a
\* lesson, a lesson and a rental on the same aircraft, an operation on
\* EC-B.
MainBookingResponses ==
    {<<BookingNode([typename |-> SingleStudentBooking, instructor |-> "I1",
                    student |-> "S1", renter |-> None, pic |-> None,
                    aircraft |-> "EC-A"], 1)>>,
     <<BookingNode([typename |-> SingleStudentBooking, instructor |-> "I1",
                    student |-> "S1", renter |-> None, pic |-> None,
                    aircraft |-> "EC-A"], 1),
       BookingNode([typename |-> RentalBooking, instructor |-> None,
                    student |-> None, renter |-> "S1", pic |-> None,
                    aircraft |-> "EC-A"], 2)>>,
     <<BookingNode([typename |-> OperationBooking, instructor |-> None,
                    student |-> None, renter |-> None, pic |-> "I1",
                    aircraft |-> "EC-B"], 1)>>}

MainNext ==
    \/ increase_date
    \/ decrease_date
    \/ press_enter
    \/ main_start
    \/ main_timeout
    \/ scheduler_School
    \/ scheduler_return
    \/ \E nodes \in AircraftResponses : School_get_aircrafts(nodes)
    \/ \E nodes \in InstructorResponses : School_get_instructors(nodes)
    \/ \E nodes \in StudentResponses : School_get_students(nodes)
    \/ School_get_classes(ClassResponses)
    \/ School_get_trainings(TrainingResponses)
    \/ School_get_bookings(MainBookingResponses)
    \/ User_initialize

\* The state a run of School.initialize starts from.
Init == FetchInit /\ UserInit /\ RunInit /\ MainRunning /\ FiguresInit /\ TrainingInit

\* The state the program starts from.
ProgramInit == FetchInit /\ UserInit /\ NoSchool /\ MainInit /\ FiguresInit /\ TrainingInit

SpecFetch == Init /\ [][FetchNext]_vars

SpecAvailability == Init /\ [][UserNext]_vars

Spec == Init /\ [][RunNext]_vars

SpecMain == ProgramInit /\ [][MainNext]_vars

SpecFigures == Init /\ [][FiguresNext]_vars

SpecTraining == Init /\ [][TrainingNext]_vars

(***************************************************************************)
(* The run of School.initialize on a school with classes: what             *)
(* fl.get_classes returns is a list of nodes, each with its name and the   *)
(* call signs of its members (flightlogger.py, lines 307-331).             *)
(***************************************************************************)
MaxClasses == 2

ClassStudentResponses == {<<UserNode("S1")>>, <<UserNode("S1"), UserNode("S10")>>}

MemberLists ==
    {<<>>, <<"S1">>, <<"s1">>, <<"S1", "I1">>, <<"S1", "S1">>, <<"S10">>}

ClassNode(name, members) ==
    [name |-> name,
     users |-> [m \in 1..Len(members) |-> [callSign |-> members[m]]]]

ClassNodes == {ClassNode(name, members) : name \in {"PUEDE VOLAR", "TEORIA"},
                                           members \in MemberLists}

SchoolClassResponses == UNION {[1..m -> ClassNodes] : m \in 0..MaxClasses}

ClassesNext ==
    \/ \E nodes \in AircraftResponses : School_get_aircrafts(nodes)
    \/ \E nodes \in InstructorResponses : School_get_instructors(nodes)
    \/ \E nodes \in ClassStudentResponses : School_get_students(nodes)
    \/ School_get_classes(SchoolClassResponses)
    \/ School_get_trainings(TrainingResponses)
    \/ School_get_bookings({<<>>})
    \/ User_initialize

SpecClasses == Init /\ [][ClassesNext]_vars

(***************************************************************************)
(* The run of School.initialize on a school with flyers and trainings.     *)
(* fl.get_trainings(self.flyers) returns the trainings of the flyers: a    *)
(* node has an id, a name, a status, its userProgram (status and name),    *)
(* its lecture and its student's call sign (school.py 205-209, user.py     *)
(* 343-360).  Names are character sequences, as Training.__init__ reads    *)
(* them.                                                                   *)
(***************************************************************************)
MaxTrainings == 2

FlyerClassResponses ==
    {<<ClassNode("PUEDE VOLAR", <<"S1", "S10">>)>>,
     <<ClassNode("PUEDE VOLAR", <<"S10", "S1">>)>>,
     <<ClassNode("TEORIA", <<"S10">>), ClassNode("PUEDE VOLAR", <<"S1">>)>>,
     <<ClassNode("TEORIA", <<"S1", "S10">>)>>}

TrainingShapes ==
    {[name |-> name, program_status |-> status, student |-> cs] :
        name \in {"PPL 1", "NAV SOLO 2"},
        status \in {"active", "inactive"},
        cs \in {"S1", "S10"}}

\* The k-th training of a response: its id is k.
TrainingNode(shape, k) ==
    [id |-> k,
     name |-> Chars(shape.name),
     status |-> "NOT_FLOWN",
     userProgram |-> [status |-> shape.program_status, name |-> s_PPL],
     lecture |-> [vfrDualMinutes |-> 60, ifrDualMinutes |-> 0, vfrSoloMinutes |-> 0,
                  vfrSimMinutes |-> 0, ifrSimMinutes |-> 0, ifrSpicMinutes |-> 0,
                  vfrSpicMinutes |-> 0],
     student |-> [callSign |-> shape.student]]

SchoolTrainingResponses ==
    {[k \in 1..Len(shapes) |-> TrainingNode(shapes[k], k)] :
        shapes \in UNION {[1..m -> TrainingShapes] : m \in 0..MaxTrainings}}

\* The call signs of self.flyers.
FlyerCallSigns == {role_groups[flyers[k][1]][flyers[k][2]].call_sign : k \in 1..Len(flyers)}

\* fl.get_trainings(self.flyers): trainings of students that are flyers.
TrainingsOfFlyers ==
    {nodes \in SchoolTrainingResponses :
        \A k \in 1..Len(nodes) : nodes[k].student.callSign \in FlyerCallSigns}

\* The bookings of these runs: lessons of S1 and S10 with I1 on EC-A, the
\* second booking of S1 without a planned lesson, and a rental.
LessonNode(student, lesson, k) ==
    [BookingNode([typename |-> SingleStudentBooking, instructor |-> "I1",
                  student |-> student, renter |-> None, pic |-> None,
                  aircraft |-> "EC-A"], k)
        EXCEPT !.plannedLesson = lesson]

FlyerBookingResponses ==
    {<<>>,
     <<LessonNode("S1", "PPL 1", 1)>>,
     <<LessonNode("S1", "NAV SOLO 2", 1), LessonNode("S1", None, 2)>>,
     <<LessonNode("S10", "PPL 1", 1), LessonNode("S1", "NAV SOLO 2", 2)>>,
     <<BookingNode([typename |-> RentalBooking, instructor |-> None,
                    student |-> None, renter |-> "S1", pic |-> None,
                    aircraft |-> "EC-A"], 1)>>}

FlyersNext ==
    \/ School_get_aircrafts(<<AircraftNode("EC-A", 100)>>)
    \/ School_get_instructors(<<UserNode("I1")>>)
    \/ \E nodes \in ClassStudentResponses : School_get_students(nodes)
    \/ School_get_classes(FlyerClassResponses)
    \/ School_get_trainings(TrainingsOfFlyers)
    \/ School_get_bookings(FlyerBookingResponses)
    \/ User_initialize

SpecFlyers == Init /\ [][FlyersNext]_vars

(***************************************************************************)
(* Claims about the API client, checked under SpecFetch.                   *)
(***************************************************************************)
Last(s) == s[Len(s)]
NoDuplicates(s) == \A i, j \in 1..Len(s) : s[i] = s[j] => i = j
IsPrefix(s, t) == Len(s) <= Len(t) /\ \A i \in 1..Len(s) : s[i] = t[i]
Ids(us) == [i \in 1..Len(us) |-> us[i].id]

\* What get_users_by_role may have on the wire with `page` pages asked for:
\* the first request has no `after`; a follow-up is sent only after a page
\* that reported hasNextPage, and carries that page's endCursor.
FollowsPrecedingPage(q, p) ==
    IF page = 1
    THEN q = "query_initial" /\ "after" \notin DOMAIN p
    ELSE /\ q = "query_after"
         /\ "after" \in DOMAIN p
         /\ "pageInfo" \in DOMAIN response_json
         /\ response_json.pageInfo.hasNextPage
         /\ p.after = response_json.pageInfo.endCursor
         /\ p.after = page - 1

\* C1: get_users_by_role over N pages, only the last with hasNextPage = false,
\* returns the nodes of all N pages in page-arrival order; every follow-up
\* request carries as `after` the endCursor of the immediately preceding page;
\* no request is issued after the page that reports no further pages.
C1_PaginatedUserFetch ==
    call = "get_users_by_role" =>
        /\ fl_pc = "await" =>
              /\ FollowsPrecedingPage(query, params)
              /\ \A i \in 1..Len(attempts) :
                    FollowsPrecedingPage(attempts[i].query, attempts[i].params)
        /\ Ids(users) = SubSeq(AllNodes(server_pages), 1, Len(users))
        /\ fl_pc = "done" =>
              /\ page = Len(server_pages)
              /\ ~response_json.pageInfo.hasNextPage
              /\ Ids(result) = AllNodes(server_pages)
              /\ \A i \in 1..Len(result) : result[i].type = params.roles

C1_Witness ==
    /\ call = "get_users_by_role"
    /\ fl_pc = "done"
    /\ Len(server_pages) >= 3
    /\ \A i \in DOMAIN server_pages : server_pages[i] = 2
    /\ Len(result) = 2 * Len(server_pages)

C3_AllPagesMaterialized ==
    fl_pc = "done" => Len(result) = Len(AllNodes(server_pages))

\* C4: a request is sent again only after a transport-classified error; any
\* other error reaches the caller at once, with no further request.
C4_OnlyTransportErrorsRetried ==
    /\ \A i \in 1..Len(attempts) :
          (attempts[i].outcome = "raised" /\ i < Len(attempts)) => attempts[i].transport
    /\ (attempts # <<>> /\ Last(attempts).outcome = "raised" /\ ~Last(attempts).transport) =>
          /\ fl_pc = "raised"
          /\ error \in OtherErrors
    /\ fl_pc = "raised" =>
          /\ Last(attempts).outcome = "raised"
          /\ ~Last(attempts).transport
          /\ fails = Len(attempts) - 1
          /\ result = <<>>
    /\ (fl_pc = "await" /\ attempts # <<>>) => Last(attempts).transport

C4_Witness ==
    /\ fl_pc = "raised"
    /\ error \in OtherErrors
    /\ Len(attempts) >= 3
    /\ \A i \in 1..(Len(attempts) - 1) : attempts[i].transport

ResultFor(c, sizes) ==
    IF c = "get_users_by_role" THEN AllNodes(sizes)
    ELSE IF c = "get_aircrafts" THEN [i \in 1..sizes[1] |-> sizes[1] + 1 - i]
    ELSE [i \in 1..sizes[1] |-> i]

ResultNodes(c, r) ==
    IF c = "get_users_by_role" THEN Ids(r)
    ELSE IF c = "get_aircrafts" THEN [i \in 1..Len(r) |-> r[i].call_sign]
    ELSE r

CursorFileOk ==
    /\ DOMAIN cursors \subseteq {"aircraft", "users", "classes"}
    /\ \A q \in DOMAIN cursors :
          /\ NoDuplicates(cursors[q])
          /\ cursors[q] # <<>>
          /\ \A i \in 1..Len(cursors[q]) : cursors[q][i] \in 1..MaxPages
    /\ "pageInfo" \in DOMAIN response_json =>
          /\ QueryObject(call) \in DOMAIN cursors
          /\ InList(response_json.pageInfo.endCursor, cursors[QueryObject(call)])
    /\ fl_pc = "done" => ResultNodes(call, result) = ResultFor(call, server_pages)

NotAfter(a, b) == a[1] < b[1] \/ (a[1] = b[1] /\ a[2] <= b[2])

\* Slot s of the raw list is open on day sd and no unavailable slot covers it.
OpenAndNotOverridden(nodes, s, sd) ==
    /\ nodes[s].unavailable = FALSE
    /\ nodes[s].startsAt[1] <= sd
    /\ sd <= nodes[s].endsAt[1]
    /\ \A t \in 1..Len(nodes) :
          ~(/\ nodes[t].unavailable
            /\ NotAfter(nodes[t].startsAt, nodes[s].startsAt)
            /\ NotAfter(nodes[s].endsAt, nodes[t].endsAt))

\* C6: is_available is true iff some slot is not unavailable, has the
\* scheduling date within [starts_at.date, ends_at.date] inclusive, and is
\* contained in no slot marked unavailable; with zero slots it is false; an
\* open slot inside an unavailable block gives false.
C6_AvailabilityResolution ==
    user_pc = "availabilities_set" =>
        LET nodes == data.availabilities.nodes IN
        /\ is_available <=>
              \E s \in 1..Len(nodes) : OpenAndNotOverridden(nodes, s, SCHEDULING_DATE)
        /\ nodes = <<>> => ~is_available
        /\ (/\ Len(nodes) = 2
            /\ nodes[1].unavailable /\ ~nodes[2].unavailable
            /\ NotAfter(nodes[1].startsAt, nodes[2].startsAt)
            /\ NotAfter(nodes[2].endsAt, nodes[1].endsAt)) => ~is_available
        /\ (/\ Len(nodes) = 1
            /\ ~nodes[1].unavailable
            /\ nodes[1].startsAt[1] = SCHEDULING_DATE
            /\ nodes[1].endsAt[1] = SCHEDULING_DATE) => is_available

\* An open slot on its last day beside an unavailable slot that overlaps it
\* without containing it: available.
C6_Witness ==
    /\ user_pc = "availabilities_set"
    /\ is_available
    /\ Len(availabilities) = 2
    /\ availabilities[1].unavailable
    /\ ~availabilities[2].unavailable
    /\ availabilities[2].starts_at.date < SCHEDULING_DATE
    /\ availabilities[2].ends_at.date = SCHEDULING_DATE
    /\ availabilities[1].ends_at.date = SCHEDULING_DATE
    /\ ~DatetimeLe(availabilities[2].ends_at, availabilities[1].ends_at)

(***************************************************************************)
(* Claims about the run of School.initialize, checked under Spec.          *)
(***************************************************************************)
KnownVariants == {SingleStudentBooking, RentalBooking, OperationBooking}

UserAt(n) == role_groups[AllUsers(role_groups)[n][1]][AllUsers(role_groups)[n][2]]
NumUsers == Len(AllUsers(role_groups))

\* The aircraft collection has no aircraft with the node's call sign.
IsOrphan(node) == \A j \in 1..Len(aircrafts) : aircrafts[j].call_sign # node.aircraft.callSign

\* The nodes attached to a user that set_bookings is to build a Booking from.
NodesToBuild(u) == SelectSeq(u.data.bookings, LAMBDA node : node.typename \in KnownVariants)

\* C7: a raw booking whose __typename is none of the three known variants
\* raises a fatal error that ends the run: the run never completes with it.
C7_UnknownDiscriminantFatal ==
    (\E k \in 1..Len(raw_bookings) : raw_bookings[k].typename \notin KnownVariants)
        => run_pc # "done"

\* How often booking `id` stands on the booking lists of the aircraft.
Registrations(id) ==
    Cardinality({jk \in (1..Len(aircrafts)) \X (1..(2 * Len(raw_bookings))) :
                    /\ jk[2] <= Len(aircrafts[jk[1]].bookings)
                    /\ aircrafts[jk[1]].bookings[jk[2]] = id})

RECURSIVE FetchedMinutes(_, _)
FetchedMinutes(cs, k) ==
    IF k = 0 THEN 0
    ELSE FetchedMinutes(cs, k - 1)
         + (IF raw_bookings[k].aircraft.callSign = cs
            THEN raw_bookings[k].flightEndsAt - raw_bookings[k].flightStartsAt ELSE 0)

\* C8: over a run each fetched booking (by id) is registered on its
\* aircraft's booking list at most once and its minutes are added to that
\* aircraft's sch_date_booked_flight_minutes at most once.
C8_SideEffectOncePerBooking ==
    /\ \A id \in 1..Len(raw_bookings) : Registrations(id) <= 1
    /\ \A j \in 1..Len(aircrafts) :
          aircrafts[j].sch_date_booked_flight_minutes
              <= FetchedMinutes(aircrafts[j].call_sign, Len(raw_bookings))

C10_VariantPartyFields ==
    \A n \in 1..NumUsers : \A k \in 1..Len(UserAt(n).bookings) :
        LET b == UserAt(n).bookings[k]
            node == raw_bookings[b.id] IN
        /\ b.typename = node.typename
        /\ b.typename \in KnownVariants
        /\ b.typename = SingleStudentBooking =>
              /\ b.instructor = node.instructor.callSign /\ b.instructor # None
              /\ b.student = node.student.callSign /\ b.student # None
              /\ b.renter = None /\ b.pic = None
        /\ b.typename = RentalBooking =>
              /\ b.renter = node.renter.callSign /\ b.renter # None
              /\ b.instructor = None /\ b.student = None /\ b.pic = None
        /\ b.typename = OperationBooking =>
              /\ b.pic = node.pic.callSign /\ b.pic # None
              /\ b.instructor = None /\ b.student = None /\ b.renter = None

C10_Witness ==
    /\ run_pc = "done"
    /\ \E n \in 1..NumUsers : \E k \in 1..Len(UserAt(n).bookings) :
          UserAt(n).bookings[k].typename = RentalBooking
    /\ \E n \in 1..NumUsers : \E k \in 1..Len(UserAt(n).bookings) :
          UserAt(n).bookings[k].typename = OperationBooking

\* The call signs the claim names as the parties of a booking of a known
\* variant.
ClaimedParties(node) ==
    IF node.typename = SingleStudentBooking
    THEN {node.instructor.callSign, node.student.callSign}
    ELSE IF node.typename = RentalBooking THEN {node.renter.callSign}
    ELSE IF node.typename = OperationBooking THEN {node.pic.callSign}
    ELSE {}

\* The raw booking with this id stands in the user's data["bookings"]["nodes"].
IsAttached(u, id) == \E h \in 1..Len(u.data.bookings) : u.data.bookings[h].id = id

\* C11: after School.get_bookings every booking of a known variant is
\* attached to every user whose call sign is one of its parties (instructor
\* and student; renter; pilot-in-command) and to no other user, whichever
\* role groups the parties are in.
C11_AttachedToAllParties ==
    run_pc \in {"initialize_users", "done", "raised"} =>
        \A k \in 1..Len(raw_bookings) : \A n \in 1..NumUsers :
            raw_bookings[k].typename \in KnownVariants =>
                (IsAttached(UserAt(n), raw_bookings[k].id)
                    <=> UserAt(n).call_sign \in ClaimedParties(raw_bookings[k]))

(***************************************************************************)
(* Claims about the program with its hotkeys, checked under SpecMain.      *)
(***************************************************************************)
\* A run is in progress: School constructed, scheduler() not yet returned.
RunInProgress == main_pc = "initialize"

\* C12: fl.SCHEDULING_DATE is set once, by School.__init__, to the date
\* chosen at that time and before any fetch; it keeps that value in every
\* step until the run's derivations have finished, also in the steps of the
\* date hotkeys.
C12_SchedulingDateFixedForRun ==
    /\ [](fetched # <<>> => RunInProgress)
    /\ [][(~RunInProgress /\ RunInProgress') =>
            (SCHEDULING_DATE' = scheduling_date /\ fetched' = <<>>)]_vars
    /\ [][RunInProgress => SCHEDULING_DATE' = SCHEDULING_DATE]_vars

\* A run has finished its derivations on the date it started with although
\* a hotkey moved main's date meanwhile.
C12_Witness ==
    /\ RunInProgress
    /\ run_pc = "done"
    /\ \E n \in 1..NumUsers : UserAt(n).bookings # <<>>
    /\ scheduling_date # SCHEDULING_DATE
    /\ SCHEDULING_DATE # TODAY

(***************************************************************************)
(* Claims about the order of School.initialize, checked under Spec.        *)
(***************************************************************************)
SomeBookingBuilt == \E n \in 1..NumUsers : UserAt(n).bookings # <<>>

\* One fetch at a time: the fetches completed so far are the first ones of
\* the order, the one being awaited is the next of the order, and no
\* Booking exists before the aircraft collection was fetched.
FetchesInOrder(order) ==
    /\ IsPrefix(fetched, order)
    /\ Len(fetched) < Len(order) => run_pc = order[Len(fetched) + 1]
    /\ Len(fetched) = Len(order) => run_pc \in {"initialize_users", "done", "raised"}
    /\ SomeBookingBuilt => (fetched # <<>> /\ fetched[1] = "get_aircrafts")

\* C13 as stated: the fetches are awaited one at a time in the order
\* aircraft, instructors, students, classes, bookings, trainings, and no
\* Booking is built before the aircraft collection exists.
C13_FetchOrderBookingsThenTrainings ==
    FetchesInOrder(<<"get_aircrafts", "get_instructors", "get_students",
                     "get_classes", "get_bookings", "get_trainings">>)

\* C13 amended: the fetches are awaited one at a time in the order
\* aircraft, instructors, students, classes, trainings, bookings, and no
\* Booking is built before the aircraft collection exists.
C13_FetchOrderTrainingsThenBookings ==
    FetchesInOrder(<<"get_aircrafts", "get_instructors", "get_students",
                     "get_classes", "get_trainings", "get_bookings">>)

C13_Witness ==
    /\ run_pc = "done"
    /\ fetched = <<"get_aircrafts", "get_instructors", "get_students",
                   "get_classes", "get_trainings", "get_bookings">>
    /\ SomeBookingBuilt

RECURSIVE MinutesOnSchedulingDate(_, _)
MinutesOnSchedulingDate(cs, k) ==
    IF k = 0 THEN 0
    ELSE MinutesOnSchedulingDate(cs, k - 1)
         + (IF /\ raw_bookings[k].aircraft.callSign = cs
               /\ raw_bookings[k].startsAt[1] = SCHEDULING_DATE
            THEN raw_bookings[k].flightEndsAt - raw_bookings[k].flightStartsAt ELSE 0)

\* C15: at the end of a run every aircraft's sch_date_booked_flight_minutes
\* is the total of the flight minutes of the bookings that reference the
\* aircraft and are booked on the scheduling date.
C15_ScheduledMinutesOfSchedulingDate ==
    run_pc = "done" =>
        \A j \in 1..Len(aircrafts) :
            aircrafts[j].sch_date_booked_flight_minutes
                = MinutesOnSchedulingDate(aircrafts[j].call_sign, Len(raw_bookings))


(***************************************************************************)
(* The figures of one user, stated over the raw nodes of the user.         *)
(***************************************************************************)
FiguresDone == figures_pc = "initialized"

FlightNodes == u_data.flights.nodes

UserBookingNodes == u_data.bookings.nodes

\* The minutes from off-block to on-block of a raw flight.
NodeAirborneMinutes(n) ==
    (n.onBlock[1] - n.offBlock[1]) * 24 * 60 + (n.onBlock[2] - n.offBlock[2])

\* The flight minutes of a raw booking.
NodeFlightMinutes(n) == n.flightEndsAt - n.flightStartsAt

\* A raw booking whose comment or planned lesson name contains "solo" in
\* any case.
NodeIsSolo(n) == n.comment = "Solo flight" \/ n.plannedLesson = "NAV SOLO 2"

\* A raw booking that is neither solo nor cancelled.
NodeQualifies(n) == ~NodeIsSolo(n) /\ n.status # "CANCELLED"

\* Day 1 is the first day of the month of both scheduling dates.
InMonthToDate(day) == 1 <= day /\ day <= SCHEDULING_DATE

\* C16: airborne_time_mtd_minutes is the sum of the airborne minutes of the
\* flights whose off-block date lies between the first day of the month of
\* the scheduling date and the scheduling date, both included, plus the
\* flight minutes of the bookings starting in that window that are neither
\* solo nor cancelled.
C16_AirborneTimeMonthToDate ==
    FiguresDone =>
        airborne_time_mtd_minutes =
            Sum([i \in 1..Len(FlightNodes) |->
                    IF InMonthToDate(FlightNodes[i].offBlock[1])
                    THEN NodeAirborneMinutes(FlightNodes[i]) ELSE 0])
            + Sum([i \in 1..Len(UserBookingNodes) |->
                    IF /\ InMonthToDate(UserBookingNodes[i].startsAt[1])
                       /\ NodeQualifies(UserBookingNodes[i])
                    THEN NodeFlightMinutes(UserBookingNodes[i]) ELSE 0])

\* A flight on the 1st counts with its full 210 minutes on the 2nd, next to
\* a cancelled booking on the 1st that counts for nothing.
C16_Witness ==
    /\ FiguresDone
    /\ SCHEDULING_DATE = 2
    /\ Len(FlightNodes) = 1
    /\ FlightNodes[1].offBlock[1] = 1
    /\ \E i \in 1..Len(UserBookingNodes) :
          /\ UserBookingNodes[i].status = "CANCELLED"
          /\ UserBookingNodes[i].startsAt[1] = 1
    /\ airborne_time_mtd_minutes = 210

\* The bookings of the scheduling date that are neither solo nor cancelled.
QualifyingCount ==
    Cardinality({i \in 1..Len(UserBookingNodes) :
                    /\ UserBookingNodes[i].startsAt[1] = SCHEDULING_DATE
                    /\ NodeQualifies(UserBookingNodes[i])})

NotLater(a, b) == a[1] < b[1] \/ (a[1] = b[1] /\ a[2] <= b[2])

C18_WitnessUnknown ==
    /\ FiguresDone
    /\ UserBookingNodes = <<>>
    /\ FlightNodes = <<>>
    /\ days_since_last_flight = MinusInf

\* C19: airborne_time_on_scheduling_date is the sum of the airborne minutes
\* of the flights whose off-block date is the scheduling date plus the
\* flight minutes of the bookings starting on the scheduling date that are
\* neither cancelled nor solo; a planned lesson named "... SOLO ..." makes a
\* booking solo whatever its comment.
C19_AirborneTimeOnSchedulingDate ==
    FiguresDone =>
        airborne_time_on_scheduling_date =
            Sum([i \in 1..Len(FlightNodes) |->
                    IF FlightNodes[i].offBlock[1] = SCHEDULING_DATE
                    THEN NodeAirborneMinutes(FlightNodes[i]) ELSE 0])
            + Sum([i \in 1..Len(UserBookingNodes) |->
                    IF /\ UserBookingNodes[i].startsAt[1] = SCHEDULING_DATE
                       /\ NodeQualifies(UserBookingNodes[i])
                    THEN NodeFlightMinutes(UserBookingNodes[i]) ELSE 0])

\* A booking of the scheduling date with the lesson NAV SOLO 2 and an empty
\* comment counts for nothing next to a booking that counts 60 minutes.
C19_Witness ==
    /\ FiguresDone
    /\ FlightNodes = <<>>
    /\ Len(UserBookingNodes) = 2
    /\ UserBookingNodes[1].startsAt[1] = SCHEDULING_DATE
    /\ UserBookingNodes[1].plannedLesson = "NAV SOLO 2"
    /\ UserBookingNodes[1].comment = ""
    /\ UserBookingNodes[1].status = "CONFIRMED"
    /\ UserBookingNodes[2].startsAt[1] = SCHEDULING_DATE
    /\ NodeQualifies(UserBookingNodes[2])
    /\ airborne_time_on_scheduling_date = 60


\* The rules of Training.order in their order, each with whether it matches
\* the training that was built.
TrainingRules ==
    LET InProgram(w) == IsSubstring(w, training.program.name)
        skill == IsSubstring(s_Skill, training.name) IN
    <<[hit |-> InProgram(s_PPL) \/ InProgram(s_LAPL), order |-> 1],
      [hit |-> InProgram(s_TIME_BUILDING), order |-> 2],
      [hit |-> InProgram(s_IR) /\ InProgram(s_BASIC), order |-> 3],
      [hit |-> InProgram(s_NIGHT), order |-> 4],
      [hit |-> InProgram(s_MEP) /\ InProgram(s_Initial), order |-> 5],
      [hit |-> InProgram(s_IR_MEPL) /\ ~skill, order |-> 6],
      [hit |-> InProgram(s_CPL) /\ ~skill, order |-> 7],
      [hit |-> skill, order |-> 8],
      [hit |-> InProgram(s_ATP), order |-> 99],
      [hit |-> InProgram(s_FI), order |-> 100]>>

\* C20: Training.order is the order of the first rule of the list that
\* matches, 0 when none matches; a program with PPL in its name yields 1
\* whether or not the training name contains "Skill".
C20_OrderOfFirstMatchingRule ==
    training_pc = "built" =>
        LET hits == {i \in 1..Len(TrainingRules) : TrainingRules[i].hit} IN
        /\ IF hits = {} THEN training.order = 0
           ELSE \E i \in hits :
                   /\ \A j \in hits : i <= j
                   /\ training.order = TrainingRules[i].order
        /\ IsSubstring(s_PPL, training.program.name) => training.order = 1

\* A skill test of a program with PPL and CPL in its name has order 1.
C20_Witness ==
    /\ training_pc = "built"
    /\ IsSubstring(s_PPL, training.program.name)
    /\ IsSubstring(s_CPL, training.program.name)
    /\ IsSubstring(s_Skill, training.name)
    /\ training.order = 1


\* The titles of a foreground window that is not the console.
OtherTitles == Titles \ {"Command Prompt", "Windows PowerShell"}

\* The step is a call of increase_date or decrease_date made while the
\* foreground window has this title.
HotkeyCall(title) ==
    \/ /\ increase_date
       /\ scheduling_date' = IncreasedDate(scheduling_date, is_active_window(title))
    \/ /\ decrease_date
       /\ scheduling_date' = DecreasedDate(scheduling_date, is_active_window(title))

\* C27 as claimed: scheduling_date is never before TODAY, a call of
\* increase_date or decrease_date moves the date by at most one day, and a
\* call made while the console is not the foreground window leaves the date
\* where it was.
C27_DatePickerConsoleOnly ==
    /\ [](scheduling_date >= TODAY)
    /\ [][/\ scheduling_date' - scheduling_date <= 1
          /\ scheduling_date - scheduling_date' <= 1]_vars
    /\ [][(scheduling_date' # scheduling_date) =>
             ~(\E title \in OtherTitles : HotkeyCall(title))]_vars

\* C27: scheduling_date is never before TODAY, only a call of increase_date
\* or decrease_date moves the date, by at most one day, and a call made
\* while is_active_window() is false (the process was started without -d
\* and the title of the foreground window is neither Command Prompt nor
\* Windows PowerShell) leaves the date where it was.
C27_DatePicker ==
    /\ [](scheduling_date >= TODAY)
    /\ [][/\ scheduling_date' - scheduling_date <= 1
          /\ scheduling_date - scheduling_date' <= 1]_vars
    /\ [][(scheduling_date' # scheduling_date) =>
             /\ increase_date \/ decrease_date
             /\ ~(~debugging /\ \E title \in OtherTitles : HotkeyCall(title))]_vars

\* The date was moved forward and the program is still waiting for enter.
C27_Witness ==
    /\ scheduling_date = TODAY + 1
    /\ main_pc = "waiting"
    /\ ~start
    /\ ~debugging


\* C24: has_booking_on_scheduling_date is true exactly when a booking of
\* the user starts on the scheduling date and is not cancelled, a solo
\* booking included.
C24_HasBookingOnSchedulingDate ==
    FiguresDone =>
        (has_booking_on_scheduling_date <=>
            \E i \in 1..Len(UserBookingNodes) :
                /\ UserBookingNodes[i].startsAt[1] = SCHEDULING_DATE
                /\ UserBookingNodes[i].status # "CANCELLED")

\* The only booking of the scheduling date that is not cancelled is a solo
\* booking, and the flag is set.
C24_Witness ==
    /\ FiguresDone
    /\ has_booking_on_scheduling_date
    /\ \E i \in 1..Len(UserBookingNodes) :
          /\ UserBookingNodes[i].startsAt[1] = SCHEDULING_DATE
          /\ UserBookingNodes[i].status = "CONFIRMED"
          /\ NodeIsSolo(UserBookingNodes[i])
    /\ \A i \in 1..Len(UserBookingNodes) :
          (UserBookingNodes[i].startsAt[1] = SCHEDULING_DATE
             /\ UserBookingNodes[i].status # "CANCELLED")
          => NodeIsSolo(UserBookingNodes[i])

\* A cancelled booking of the scheduling date alone leaves the flag down.
C24_WitnessCancelled ==
    /\ FiguresDone
    /\ ~has_booking_on_scheduling_date
    /\ \E i \in 1..Len(UserBookingNodes) :
          /\ UserBookingNodes[i].startsAt[1] = SCHEDULING_DATE
          /\ UserBookingNodes[i].status = "CANCELLED"

\* Every raw flight and every raw booking flight of the user lasts zero
\* minutes or more.
NoNegativeMinutes ==
    /\ \A i \in 1..Len(FlightNodes) : NodeAirborneMinutes(FlightNodes[i]) >= 0
    /\ \A i \in 1..Len(UserBookingNodes) : NodeFlightMinutes(UserBookingNodes[i]) >= 0

\* C26: after User.initialize, with no negative airborne minutes, the
\* airborne time of the scheduling date is at most the airborne time of the
\* month to date.
C26_OnSchedulingDateWithinMonthToDate ==
    (FiguresDone /\ NoNegativeMinutes) =>
        airborne_time_on_scheduling_date <= airborne_time_mtd_minutes

\* Minutes flown on the scheduling date and more minutes earlier in the
\* month.
C26_Witness ==
    /\ FiguresDone
    /\ NoNegativeMinutes
    /\ 0 < airborne_time_on_scheduling_date
    /\ airborne_time_on_scheduling_date < airborne_time_mtd_minutes

\* On the first day of the month the two figures are the same minutes.
C26_WitnessFirstDay ==
    /\ FiguresDone
    /\ SCHEDULING_DATE = 1
    /\ 0 < airborne_time_on_scheduling_date
    /\ airborne_time_on_scheduling_date = airborne_time_mtd_minutes


(***************************************************************************)
(* Claims about the warnings and the figures of the users of a run,        *)
(* checked under Spec.                                                     *)
(***************************************************************************)
\* How often School.warnings holds the warning of this user for this booking.
WarningsFor(cs, id) ==
    Cardinality({i \in 1..Len(warnings) :
                    warnings[i] = [call_sign |-> cs, booking |-> id]})

\* A raw booking of the single-student variant without a planned lesson.
LacksPlannedLesson(node) ==
    node.typename = SingleStudentBooking /\ node.plannedLesson = None

\* The raw bookings of a user that lack a planned lesson.
LackingNodes(u) == SelectSeq(NodesToBuild(u), LacksPlannedLesson)

\* The users whose turn of the loop is over.
InitializedUsers == {n \in 1..NumUsers : n < next_user}

RECURSIVE WarningsExpected(_)
WarningsExpected(n) ==
    IF n = 0 THEN 0
    ELSE WarningsExpected(n - 1)
         + (IF n \in InitializedUsers THEN Len(LackingNodes(UserAt(n))) ELSE 0)

\* C21: School.warnings holds, for every user whose initialize has returned,
\* one warning for each single-student booking of the user without a
\* planned lesson and none for any other booking; only a booking on an
\* unknown aircraft ends the run; and the figures of such a user are those
\* of its bookings.
C21_WarningsCollected ==
    run_pc \in {"initialize_users", "done", "raised"} =>
        /\ \A n \in 1..NumUsers :
              \A h \in 1..Len(UserAt(n).data.bookings) :
                 LET node == UserAt(n).data.bookings[h] IN
                 WarningsFor(UserAt(n).call_sign, node.id) =
                    IF n \in InitializedUsers /\ LacksPlannedLesson(node) THEN 1 ELSE 0
        /\ Len(warnings) = WarningsExpected(NumUsers)
        /\ run_pc = "raised" =>
              \E k \in 1..Len(NodesToBuild(UserAt(next_user))) :
                  IsOrphan(NodesToBuild(UserAt(next_user))[k])
        /\ \A n \in InitializedUsers :
              LET u == UserAt(n)
                  nodes == NodesToBuild(u)
                  today == {h \in 1..Len(nodes) : nodes[h].startsAt[1] = SCHEDULING_DATE} IN
              /\ ~u.is_available
              /\ u.has_booking_on_scheduling_date <=> today # {}
              /\ u.airborne_time_on_scheduling_date =
                    Sum([h \in 1..Len(nodes) |->
                            IF h \in today
                            THEN nodes[h].flightEndsAt - nodes[h].flightStartsAt ELSE 0])
              /\ u.airborne_time_mtd_minutes = u.airborne_time_on_scheduling_date
              /\ IF nodes = <<>> THEN u.days_since_last_flight.inf
                 ELSE \E h \in 1..Len(nodes) :
                         /\ \A g \in 1..Len(nodes) : nodes[g].startsAt[1] <= nodes[h].startsAt[1]
                         /\ u.days_since_last_flight
                               = [inf |-> FALSE, days |-> SCHEDULING_DATE - nodes[h].startsAt[1]]

\* A completed run where a student has a rental booking on the scheduling
\* date and, a day later, a single-student booking without a planned
\* lesson: one warning for the instructor and one for the student of that
\* booking, none for the rental, and the figures of the student are there.
C21_Witness ==
    /\ run_pc = "done"
    /\ Len(warnings) = 2
    /\ \E n \in 1..NumUsers :
          LET u == UserAt(n) IN
          /\ Len(u.bookings) = 2
          /\ \E k \in 1..2 : u.bookings[k].typename = RentalBooking
          /\ WarningsFor(u.call_sign, 2) = 1
          /\ WarningsFor(u.call_sign, 1) = 0
          /\ u.has_booking_on_scheduling_date
          /\ u.airborne_time_mtd_minutes = 30
          /\ u.days_since_last_flight = [inf |-> FALSE, days |-> -1]


\* The references <<group, index>> of the users of the school.
UserRefs == {<<g, i>> : g \in 1..2, i \in 1..2} \cap
            {ref \in (1..2) \X (1..2) : ref[2] <= Len(role_groups[ref[1]])}

InSeq(x, seq) == \E k \in 1..Len(seq) : seq[k] = x

\* The steps of the run before School.get_classes has returned.
BeforeClasses == {"get_aircrafts", "get_instructors", "get_students", "get_classes"}

\* C22: once School.get_classes has returned, there is one class per class
\* node, a user is in the users of a class iff the user's call sign equals,
\* case-sensitively, one of the member call signs of its node, and a class
\* is in a user's classes iff the user is in the users of the class; until
\* then, while the instructors and the students are built, no class exists
\* and no user has a class.
C22_ClassLinking ==
    /\ run_pc \in BeforeClasses =>
          /\ classes = <<>>
          /\ \A ref \in UserRefs : role_groups[ref[1]][ref[2]].classes = <<>>
    /\ run_pc \notin BeforeClasses =>
          /\ Len(classes) = Len(raw_classes)
          /\ \A c \in 1..Len(classes) :
                /\ classes[c].name = raw_classes[c].name
                /\ \A k \in 1..Len(classes[c].users) : classes[c].users[k] \in UserRefs
                /\ \A ref \in UserRefs :
                      /\ InSeq(ref, classes[c].users) <=>
                            \E m \in 1..Len(raw_classes[c].users) :
                                raw_classes[c].users[m].callSign =
                                    role_groups[ref[1]][ref[2]].call_sign
                      /\ InSeq(c, role_groups[ref[1]][ref[2]].classes) <=>
                            InSeq(ref, classes[c].users)
          /\ \A ref \in UserRefs :
                \A j \in 1..Len(role_groups[ref[1]][ref[2]].classes) :
                    role_groups[ref[1]][ref[2]].classes[j] \in 1..Len(classes)

\* The run is over; the first class lists S1 and I1 and has both as users,
\* the second lists s1 and has no user, S10 is in neither.
C22_Witness ==
    /\ run_pc = "done"
    /\ Len(classes) = 2
    /\ raw_classes[1].users = <<[callSign |-> "S1"], [callSign |-> "I1"]>>
    /\ raw_classes[2].users = <<[callSign |-> "s1"]>>
    /\ classes[1].users = <<(<<2, 1>>), (<<1, 1>>)>>
    /\ classes[2].users = <<>>
    /\ Len(role_groups[2]) = 2
    /\ role_groups[2][1].classes = <<1>>
    /\ role_groups[2][2].classes = <<>>
    /\ role_groups[1][1].classes = <<1>>


\* The steps of the run before School.get_trainings has returned.
BeforeTrainings == BeforeClasses \cup {"get_trainings"}

\* The users that hold the k-th fetched training in data["trainings"]["nodes"].
HoldersOfTraining(k) ==
    {ref \in UserRefs : InSeq(raw_trainings[k], role_groups[ref[1]][ref[2]].data.trainings)}

\* C25: once School.get_trainings has returned, every fetched training is
\* held by at most one user, and a user that holds it is a flyer whose call
\* sign equals the call sign of the training's student and whose program
\* for the training is active.
C25_TrainingAttachedToItsStudent ==
    run_pc \notin BeforeTrainings =>
        \A k \in 1..Len(raw_trainings) :
            /\ Cardinality(HoldersOfTraining(k)) <= 1
            /\ \A ref \in HoldersOfTraining(k) :
                  /\ InSeq(ref, flyers)
                  /\ role_groups[ref[1]][ref[2]].call_sign = raw_trainings[k].student.callSign
                  /\ raw_trainings[k].userProgram.status = "active"

\* The built bookings of a user whose planned lesson has this lecture name.
LessonsNamed(u, name) ==
    {i \in 1..Len(u.bookings) :
        /\ u.bookings[i].planned_lesson # None
        /\ Chars(u.bookings[i].planned_lesson) = name}

\* C23: for every user whose initialize has returned, every booking node of
\* the user is built, there is one training per training node of the user,
\* and a training is booked iff one of the user's bookings has a planned
\* lesson whose lecture name equals the name of the training.
C23_BookedFlag ==
    \A n \in InitializedUsers :
        LET ref == AllUsers(role_groups)[n]
            u == role_groups[ref[1]][ref[2]] IN
        /\ Len(u.bookings) = Len(NodesToBuild(u))
        /\ Len(u.trainings) = Len(u.data.trainings)
        /\ \A t \in 1..Len(u.trainings) :
              /\ \E k \in 1..Len(u.data.trainings) :
                    /\ u.data.trainings[k].id = u.trainings[t].id
                    /\ u.data.trainings[k].name = u.trainings[t].name
              /\ u.trainings[t].booked <=> LessonsNamed(u, u.trainings[t].name) # {}

\* S1's initialize has returned: S1 has the lessons NAV SOLO 2 and one
\* without a plan, the training NAV SOLO 2 is booked and PPL 1 is not.
C23_Witness ==
    /\ run_pc = "done"
    /\ Len(role_groups[2][1].bookings) = 2
    /\ \E t1, t2 \in 1..Len(role_groups[2][1].trainings) :
          /\ role_groups[2][1].trainings[t1].name = Chars("NAV SOLO 2")
          /\ role_groups[2][1].trainings[t1].booked
          /\ role_groups[2][1].trainings[t2].name = Chars("PPL 1")
          /\ ~role_groups[2][1].trainings[t2].booked

====
